---------------------------- MODULE Spec2Model ----------------------------
(***************************************************************************)
(* noteBoard: the persistence layer (notes, tags, note_tags, settings over *)
(* one SQLite connection), the observer fan-out of the models, and the     *)
(* debounced autosave of NoteController.                                    *)
(*                                                                         *)
(* Strings are tuples of one-character strings, so that str.strip(), the   *)
(* case-insensitive LIKE and the colour pattern are computed, not assumed. *)
(***************************************************************************)
EXTENDS Integers, Sequences, FiniteSets, TLC

VARIABLES
    notes,              \* table notes: row id |-> row (ids 1..Len, never removed)
    tags,               \* table tags: function tag id |-> row
    tag_seq,            \* AUTOINCREMENT counter of tags (sqlite_sequence)
    note_tags,          \* table note_tags: set of <<note_id, tag_id>>
    clock,              \* datetime.now(), in whole seconds
    observers,          \* BaseModel._observers, in registration order
    lastOp,             \* the last repository call: name, arguments, result, events
    settings,           \* table settings: key |-> stored string
    settings_cache,     \* SettingsModel._settings_cache: key |-> value
    current_note_id,    \* NoteController._current_note_id (None is 0)
    pending_changes,    \* NoteController._pending_changes, in insertion order
    timer_active,       \* NoteController._auto_save_timer.isActive()
    auto_save_enabled,  \* NoteController._auto_save_enabled
    flush,              \* the update_note calls of the last controller call
    models,             \* NoteController._models: the names attached
    connection,         \* DatabaseManager: the connection is open
    phase,              \* "running" (the event loop), or the position in
                        \* MainController.cleanup
    database,           \* the sqlite3 connection's transaction: the statements
                        \* committed, those of the open transaction, the
                        \* cursors not closed
    manager             \* ControllerManager: _controllers (the names in
                        \* insertion order), _controller_dependencies, and
                        \* what the last init_all_controllers did

vars == <<notes, tags, tag_seq, note_tags, clock, observers, lastOp,
          settings, settings_cache, current_note_id, pending_changes,
          timer_active, auto_save_enabled, flush, models, connection,
          phase, database, manager>>

storeVars == <<notes, tags, tag_seq, note_tags>>
settingsVars == <<settings, settings_cache, database, manager>>
autosaveVars == <<current_note_id, pending_changes, timer_active,
                  auto_save_enabled, flush, models, connection, phase>>

---------------------------------------------------------------------------
(* Bounds of the model *)

MaxNotes == 2
MaxTags == 2
MaxClock == 1

---------------------------------------------------------------------------
(* Strings *)

RECURSIVE lstrip(_)
lstrip(s) ==
    IF s = <<>> THEN s
    ELSE IF Head(s) = " " THEN lstrip(Tail(s)) ELSE s

RECURSIVE rstrip(_)
rstrip(s) ==
    IF s = <<>> THEN s
    ELSE IF s[Len(s)] = " " THEN rstrip(SubSeq(s, 1, Len(s) - 1)) ELSE s

\* the string as typed
strip_Keep(s) == s

\* str.strip()
strip(s) == rstrip(lstrip(s))

\* ASCII case folding, as SQLite's LIKE does
lower_char(c) ==
    CASE c = "A" -> "a"
      [] c = "B" -> "b"
      [] c = "C" -> "c"
      [] c = "F" -> "f"
      [] c = "N" -> "n"
      [] c = "T" -> "t"
      [] OTHER -> c

lower(s) == [i \in 1..Len(s) |-> lower_char(s[i])]

\* column LIKE '%keyword%'
like_contains(column, keyword) ==
    \E i \in 0..(Len(column) - Len(keyword)) :
        lower(SubSeq(column, i + 1, i + Len(keyword))) = lower(keyword)

---------------------------------------------------------------------------
(* Input domains of the model *)

None == 0

NoteIds == 1..MaxNotes
TagIds == 1..MaxTags

\* titles as typed: blank, plain, padded
TitleInputs == { <<" ">>, <<"a">>, <<" ", "b", " ">> }
ContentInputs == { <<>>, <<"B">> }
\* tag names as typed: blank, plain, padded, other case
NameInputs == { <<" ">>, <<"a">>, <<" ", "a">>, <<"A">> }
\* colours as typed: #RGB, and a word that is no hex colour
ColorInputs == { <<"#", "F", "0", "0">>, <<"r", "e", "d">> }
\* tag_ids lists: empty, one id, two ids (repeats included)
TagIdLists ==
    { <<>> } \cup { <<t>> : t \in TagIds } \cup { <<t, u>> : t, u \in TagIds }
Keywords == { <<>>, <<"A">>, <<"b">> }

Range(f) == { f[x] : x \in DOMAIN f }

EmptyMap == [k \in {} |-> None]

---------------------------------------------------------------------------
(* DatabaseManager: statements over the tables.  Every execute_query and  *)
(* execute_many runs in a transaction of its own (get_cursor): committed  *)
(* on normal exit, rolled back when a statement raises.                    *)

\* the connection without PRAGMA foreign_keys = ON
foreign_keys_ok_PragmaOff(ns, ts, note_id, tag_id) == TRUE

\* FOREIGN KEY (note_id) REFERENCES notes, FOREIGN KEY (tag_id) REFERENCES tags,
\* with PRAGMA foreign_keys = ON
foreign_keys_ok(ns, ts, note_id, tag_id) ==
    /\ note_id \in 1..Len(ns)
    /\ tag_id \in DOMAIN ts

\* INSERT OR REPLACE: a row that exists is written again and counted
insert_note_tag_Replace(ns, ts, nt, note_id, tag_id) ==
    IF ~foreign_keys_ok(ns, ts, note_id, tag_id)
    THEN [raised |-> TRUE, note_tags |-> nt, rowcount |-> 0]
    ELSE [raised |-> FALSE, note_tags |-> nt \cup {<<note_id, tag_id>>},
          rowcount |-> 1]

\* INSERT OR IGNORE INTO note_tags (note_id, tag_id) VALUES (?, ?), one row:
\* a row that exists is ignored, a foreign key violation raises
insert_note_tag(ns, ts, nt, note_id, tag_id) ==
    IF <<note_id, tag_id>> \in nt
    THEN [raised |-> FALSE, note_tags |-> nt, rowcount |-> 0]
    ELSE IF ~foreign_keys_ok(ns, ts, note_id, tag_id)
    THEN [raised |-> TRUE, note_tags |-> nt, rowcount |-> 0]
    ELSE [raised |-> FALSE, note_tags |-> nt \cup {<<note_id, tag_id>>},
          rowcount |-> 1]

\* cursor.executemany over the rows, in order, stopping at the first that raises
RECURSIVE executemany(_, _, _, _)
executemany(ns, ts, nt, rows) ==
    IF rows = <<>> THEN [raised |-> FALSE, note_tags |-> nt]
    ELSE LET r == insert_note_tag(ns, ts, nt, Head(rows)[1], Head(rows)[2])
         IN  IF r.raised THEN [raised |-> TRUE, note_tags |-> r.note_tags]
             ELSE executemany(ns, ts, r.note_tags, Tail(rows))

\* execute_many: commit when all rows went in, roll back to the state before
\* the first row when one raised
execute_many(ns, ts, nt, rows) ==
    LET r == executemany(ns, ts, nt, rows)
    IN  IF r.raised THEN [raised |-> TRUE, note_tags |-> nt]
        ELSE r

\* DELETE FROM tags WHERE id = ?, with ON DELETE CASCADE on note_tags.tag_id
delete_tag_row(ts, nt, tag_id) ==
    [tags |-> [t \in DOMAIN ts \ {tag_id} |-> ts[t]],
     note_tags |-> { r \in nt : r[2] # tag_id },
     rowcount |-> IF tag_id \in DOMAIN ts THEN 1 ELSE 0]

---------------------------------------------------------------------------
(* Ordering, as ORDER BY needs it *)

\* the byte of a character (BINARY collation)
char_code(c) ==
    CASE c = " " -> 32
      [] c = "#" -> 35
      [] c = "0" -> 48
      [] c = "A" -> 65
      [] c = "B" -> 66
      [] c = "F" -> 70
      [] c = "a" -> 97
      [] c = "b" -> 98
      [] OTHER -> 122

RECURSIVE str_leq(_, _)
str_leq(s, t) ==
    IF s = <<>> THEN TRUE
    ELSE IF t = <<>> THEN FALSE
    ELSE IF Head(s) = Head(t) THEN str_leq(Tail(s), Tail(t))
    ELSE char_code(Head(s)) < char_code(Head(t))

\* every sequence that lists the members of S once each, in an order leq allows:
\* rows that compare equal come in any order
orderings(S, leq(_, _)) ==
    { p \in [1..Cardinality(S) -> S] :
        /\ \A i, j \in 1..Cardinality(S) : i # j => p[i] # p[j]
        /\ \A i, j \in 1..Cardinality(S) : i < j => leq(p[i], p[j]) }

---------------------------------------------------------------------------
(* BaseModel: observers *)

\* add_observer: an observer is registered once
add_observer(obs, o) ==
    IF \E i \in 1..Len(obs) : obs[i] = o THEN obs ELSE Append(obs, o)

\* remove_observer
remove_observer(obs, o) ==
    SelectSeq(obs, LAMBDA x : x # o)

\* notify_observers without the try/except around the handler
RECURSIVE notify_observers_Uncaught(_, _)
notify_observers_Uncaught(obs, raising) ==
    IF obs = <<>> THEN [delivered |-> <<>>, propagated |-> FALSE]
    ELSE LET rest == IF Head(obs) \in raising
                     THEN [delivered |-> <<>>, propagated |-> TRUE]
                     ELSE notify_observers_Uncaught(Tail(obs), raising)
         IN  [delivered |-> <<Head(obs)>> \o rest.delivered,
              propagated |-> rest.propagated]

\* notify_observers: every observer in list order; an exception of a handler
\* is caught and logged, the loop goes on.  "raising" are the observers whose
\* handle_model_event raises.  delivered: the observers called, in order;
\* propagated: whether an exception leaves notify_observers.
RECURSIVE notify_observers(_, _)
notify_observers(obs, raising) ==
    IF obs = <<>> THEN [delivered |-> <<>>, propagated |-> FALSE]
    ELSE LET threw == Head(obs) \in raising
             caught == threw          \* except Exception: logged
             rest == IF threw /\ ~caught
                     THEN [delivered |-> <<>>, propagated |-> TRUE]
                     ELSE notify_observers(Tail(obs), raising)
         IN  [delivered |-> <<Head(obs)>> \o rest.delivered,
              propagated |-> rest.propagated]

\* get_current_timestamp
get_current_timestamp == clock

---------------------------------------------------------------------------
(* NoteModel: reads *)

\* get_by_id without "AND is_deleted = 0"
get_by_id_AnyRow(ns, note_id) ==
    { n \in 1..Len(ns) : n = note_id }

\* get_by_id: the live row, as a set of at most one note id
get_by_id(ns, note_id) ==
    { n \in 1..Len(ns) : n = note_id /\ ns[n].is_deleted = 0 }

\* _get_note_tags: the tags joined to the note, ordered by name
_get_note_tags(ts, nt, note_id) ==
    LET S == { t \in DOMAIN ts : <<note_id, t>> \in nt }
        byName(a, b) == str_leq(ts[a].name, ts[b].name)
    IN  CHOOSE p \in orderings(S, byName) : TRUE

\* get_all without "n.is_deleted = 0" in its WHERE clause
get_all_where_NoDeletedFilter(ns, nt, filters, n) ==
    /\ filters.tag_ids # <<>> =>
         \E i \in 1..Len(filters.tag_ids) : <<n, filters.tag_ids[i]>> \in nt
    /\ filters.search_keyword # <<>> =>
         \/ like_contains(ns[n].title, filters.search_keyword)
         \/ like_contains(ns[n].content, filters.search_keyword)

\* the WHERE clause of get_all
get_all_where(ns, nt, filters, n) ==
    /\ ns[n].is_deleted = 0
    /\ filters.tag_ids # <<>> =>
         \E i \in 1..Len(filters.tag_ids) : <<n, filters.tag_ids[i]>> \in nt
    /\ filters.search_keyword # <<>> =>
         \/ like_contains(ns[n].title, filters.search_keyword)
         \/ like_contains(ns[n].content, filters.search_keyword)

\* the ORDER BY clause of get_all: none for a column that is not in the list
get_all_order(ns, filters, a, b) ==
    LET up(x, y) ==
            CASE filters.order_by = "id" -> x <= y
              [] filters.order_by = "title" -> str_leq(ns[x].title, ns[y].title)
              [] filters.order_by = "created_at" ->
                     ns[x].created_at <= ns[y].created_at
              [] filters.order_by = "updated_at" ->
                     ns[x].updated_at <= ns[y].updated_at
              [] OTHER -> TRUE
    IN  IF filters.order_direction = "DESC" THEN up(b, a) ELSE up(a, b)

\* LIMIT ? [OFFSET ?]: offset is read only when a limit is given
limit_offset(p, filters) ==
    IF filters.limit = 0 THEN p
    ELSE LET off == IF filters.offset = 0 THEN 0 ELSE filters.offset
             last == IF off + filters.limit < Len(p)
                     THEN off + filters.limit ELSE Len(p)
         IN  SubSeq(p, off + 1, last)

\* get_all: the sequences of note ids the query can return
get_all(ns, nt, filters) ==
    LET S == { n \in 1..Len(ns) : get_all_where(ns, nt, filters, n) }
        ord(a, b) == get_all_order(ns, filters, a, b)
    IN  { limit_offset(p, filters) : p \in orderings(S, ord) }

\* search
search(ns, nt, keyword, limit) ==
    get_all(ns, nt, [tag_ids |-> <<>>, search_keyword |-> keyword,
                     limit |-> limit, offset |-> 0,
                     order_by |-> "updated_at", order_direction |-> "DESC"])

\* get_by_tags
get_by_tags(ns, nt, tag_ids) ==
    get_all(ns, nt, [tag_ids |-> tag_ids, search_keyword |-> <<>>,
                     limit |-> 0, offset |-> 0,
                     order_by |-> "updated_at", order_direction |-> "DESC"])

\* get_recent_notes
get_recent_notes(ns, nt, limit) ==
    get_all(ns, nt, [tag_ids |-> <<>>, search_keyword |-> <<>>,
                     limit |-> limit, offset |-> 0,
                     order_by |-> "updated_at", order_direction |-> "DESC"])

\* get_notes_count
get_notes_count(ns) ==
    Cardinality({ n \in 1..Len(ns) : ns[n].is_deleted = 0 })

---------------------------------------------------------------------------
(* The record of the last repository call *)

\* op: the method; id, tag: its note/tag arguments (or the new id); arg: the
\* name a tag was asked for, stripped; ok: whether it reported success;
\* events: the events it emitted; delivered: the observers whose handler was
\* called; raised: those that raised
Call(op, id, tag, arg, ok, events, n) ==
    [op |-> op, id |-> id, tag |-> tag, arg |-> arg, ok |-> ok,
     events |-> events, delivered |-> n.delivered, raised |-> n.raised]

NoCall == [delivered |-> <<>>, raised |-> {}]

\* one notify_observers call of a repository method, with the handlers that raise
Notified(raising) ==
    LET n == notify_observers(observers, raising)
    IN  [delivered |-> n.delivered, propagated |-> n.propagated,
         raised |-> { o \in raising : \E i \in 1..Len(n.delivered) :
                                          n.delivered[i] = o }]

\* update data: "fields" are the keys present in the dict
Data(fields, title, content, tag_ids) ==
    [fields |-> fields, title |-> title, content |-> content,
     tag_ids |-> tag_ids]

\* the dicts update is called with: any subset of the three keys (the value
\* of an absent key is written <<>> and never read)
UpdateInputs(titles, contents, lists) ==
    { d \in [fields : SUBSET {"title", "content", "tag_ids"},
             title : titles \cup {<<>>}, content : contents \cup {<<>>},
             tag_ids : lists] :
        /\ "title" \notin d.fields <=> d.title = <<>>
        /\ "content" \notin d.fields => d.content = <<>>
        /\ "content" \in d.fields => d.content \in contents
        /\ "tag_ids" \notin d.fields => d.tag_ids = <<>> }

---------------------------------------------------------------------------
(* NoteModel: writes *)

\* _add_note_tags: one execute_many; its exception is logged, not raised
_add_note_tags(ns, ts, nt, note_id, tag_ids) ==
    IF tag_ids = <<>> THEN nt
    ELSE execute_many(ns, ts, nt,
             [i \in 1..Len(tag_ids) |-> <<note_id, tag_ids[i]>>]).note_tags

\* _clear_note_tags deleting nothing
_clear_note_tags_Keep(nt, note_id) == nt

\* _clear_note_tags: DELETE FROM note_tags WHERE note_id = ?
_clear_note_tags(nt, note_id) ==
    { r \in nt : r[1] # note_id }

\* _update_note_tags without the clear: the new tags join the old ones
_update_note_tags_Merge(ns, ts, nt, note_id, tag_ids) ==
    IF tag_ids # <<>>
    THEN _add_note_tags(ns, ts, nt, note_id, tag_ids)
    ELSE nt

\* _update_note_tags: clear, then add
_update_note_tags(ns, ts, nt, note_id, tag_ids) ==
    LET cleared == _clear_note_tags(nt, note_id)
    IN  IF tag_ids # <<>>
        THEN _add_note_tags(ns, ts, cleared, note_id, tag_ids)
        ELSE cleared

\* create that stores the title as typed, without strip()
NoteCreate_NoStrip(title, content, tag_ids, raising) ==
    /\ Len(notes) < MaxNotes
    /\ notes' = Append(notes, [title |-> title, content |-> content,
                               created_at |-> get_current_timestamp,
                               updated_at |-> get_current_timestamp,
                               is_deleted |-> 0])
    /\ note_tags' = _add_note_tags(notes', tags, note_tags, Len(notes) + 1,
                                   tag_ids)
    /\ lastOp' = Call("note_create", Len(notes) + 1, None, <<>>, TRUE,
                      <<"note_created">>, Notified(raising))
    /\ UNCHANGED <<tags, tag_seq, clock, observers>>
    /\ UNCHANGED <<settingsVars, autosaveVars>>

\* NoteModel.create
NoteCreate(title, content, tag_ids, raising) ==
    /\ strip(title) # <<>> => Len(notes) < MaxNotes
    /\ LET t == strip(title)
           note_id == Len(notes) + 1
           now == get_current_timestamp
           row == [title |-> t, content |-> content, created_at |-> now,
                   updated_at |-> now, is_deleted |-> 0]
           ns == Append(notes, row)
           n == Notified(raising)
       IN  IF t = <<>>
           THEN /\ lastOp' = Call("note_create", None, None, <<>>, FALSE, <<>>, NoCall)
                /\ UNCHANGED <<notes, note_tags>>
           ELSE /\ notes' = ns
                /\ note_tags' = IF tag_ids # <<>>
                                THEN _add_note_tags(ns, tags, note_tags,
                                                    note_id, tag_ids)
                                ELSE note_tags
                /\ lastOp' = Call("note_create", note_id, None, <<>>, ~n.propagated,
                                  <<"note_created">>, n)
    /\ UNCHANGED <<tags, tag_seq, clock, observers>>
    /\ UNCHANGED <<settingsVars, autosaveVars>>

\* NoteModel.update without the look-up of the note and without the
\* "AND is_deleted = 0" of its UPDATE
note_update_NoLookup(ns, ts, nt, now, note_id, data) ==
    IF note_id \notin 1..Len(ns)
       \/ ("title" \in data.fields /\ strip(data.title) = <<>>)
    THEN [ok |-> FALSE, notes |-> ns, note_tags |-> nt]
    ELSE [ok |-> TRUE,
          notes |-> [ns EXCEPT
                       ![note_id].title = IF "title" \in data.fields
                                          THEN strip(data.title) ELSE @,
                       ![note_id].content = IF "content" \in data.fields
                                            THEN data.content ELSE @,
                       ![note_id].updated_at = now],
          note_tags |-> IF "tag_ids" \in data.fields
                        THEN _update_note_tags(ns, ts, nt, note_id,
                                               data.tag_ids)
                        ELSE nt]

\* NoteModel.update writing every column and the tags, given or not
note_update_AllFields(ns, ts, nt, now, note_id, data) ==
    IF get_by_id(ns, note_id) = {}
       \/ ("title" \in data.fields /\ strip(data.title) = <<>>)
    THEN [ok |-> FALSE, notes |-> ns, note_tags |-> nt]
    ELSE [ok |-> TRUE,
          notes |-> [ns EXCEPT ![note_id].title = strip(data.title),
                               ![note_id].content = data.content,
                               ![note_id].updated_at = now],
          note_tags |-> _update_note_tags(ns, ts, nt, note_id, data.tag_ids)]

\* the result of NoteModel.update on the tables
note_update(ns, ts, nt, now, note_id, data) ==
    LET t == strip(data.title)
        row == [ns[note_id] EXCEPT
                  !.title = IF "title" \in data.fields THEN t ELSE @,
                  !.content = IF "content" \in data.fields
                              THEN data.content ELSE @,
                  !.updated_at = now]
    IN  IF get_by_id(ns, note_id) = {}
        THEN [ok |-> FALSE, notes |-> ns, note_tags |-> nt]
        ELSE IF "title" \in data.fields /\ t = <<>>
        THEN [ok |-> FALSE, notes |-> ns, note_tags |-> nt]
        ELSE [ok |-> TRUE,
              notes |-> [ns EXCEPT ![note_id] = row],
              note_tags |-> IF "tag_ids" \in data.fields
                            THEN _update_note_tags(ns, ts, nt, note_id,
                                                   data.tag_ids)
                            ELSE nt]

\* NoteModel.update
NoteUpdate(note_id, data, raising) ==
    /\ LET r == note_update(notes, tags, note_tags, get_current_timestamp,
                            note_id, data)
           n == Notified(raising)
       IN  /\ notes' = r.notes
           /\ note_tags' = r.note_tags
           /\ lastOp' = IF r.ok
                        THEN Call("note_update", note_id, None, <<>>, ~n.propagated,
                                  <<"note_updated">>, n)
                        ELSE Call("note_update", note_id, None, <<>>, FALSE, <<>>,
                                  NoCall)
    /\ UNCHANGED <<tags, tag_seq, clock, observers>>
    /\ UNCHANGED <<settingsVars, autosaveVars>>

\* NoteModel.delete without the look-up of the note and without the
\* "AND is_deleted = 0" of its UPDATE
note_delete_NoLookup(ns, nt, now, note_id) ==
    IF note_id \notin 1..Len(ns)
    THEN [ok |-> FALSE, notes |-> ns, note_tags |-> nt]
    ELSE [ok |-> TRUE,
          notes |-> [ns EXCEPT ![note_id].is_deleted = 1,
                               ![note_id].updated_at = now],
          note_tags |-> _clear_note_tags(nt, note_id)]

\* the result of NoteModel.delete on the tables
note_delete(ns, nt, now, note_id) ==
    IF get_by_id(ns, note_id) = {}
    THEN [ok |-> FALSE, notes |-> ns, note_tags |-> nt]
    ELSE [ok |-> TRUE,
          notes |-> [ns EXCEPT ![note_id].is_deleted = 1,
                               ![note_id].updated_at = now],
          note_tags |-> _clear_note_tags(nt, note_id)]

\* NoteModel.delete
NoteDelete(note_id, raising) ==
    /\ LET r == note_delete(notes, note_tags, get_current_timestamp, note_id)
           n == Notified(raising)
       IN  /\ notes' = r.notes
           /\ note_tags' = r.note_tags
           /\ lastOp' = IF r.ok
                        THEN Call("note_delete", note_id, None, <<>>, ~n.propagated,
                                  <<"note_deleted">>, n)
                        ELSE Call("note_delete", note_id, None, <<>>, FALSE, <<>>,
                                  NoCall)
    /\ UNCHANGED <<tags, tag_seq, clock, observers>>
    /\ UNCHANGED <<settingsVars, autosaveVars>>

\* NoteModel.add_tag_to_note
AddTagToNote(note_id, tag_id, raising) ==
    /\ LET r == insert_note_tag(notes, tags, note_tags, note_id, tag_id)
           n == Notified(raising)
       IN  IF get_by_id(notes, note_id) = {} \/ r.raised \/ r.rowcount = 0
           THEN /\ lastOp' = Call("add_tag_to_note", note_id, tag_id, <<>>, FALSE,
                                  <<>>, NoCall)
                /\ UNCHANGED note_tags
           ELSE /\ note_tags' = r.note_tags
                /\ lastOp' = Call("add_tag_to_note", note_id, tag_id, <<>>,
                                  ~n.propagated, <<"note_tag_added">>, n)
    /\ UNCHANGED <<notes, tags, tag_seq, clock, observers>>
    /\ UNCHANGED <<settingsVars, autosaveVars>>

\* remove_tag_from_note notifying whatever the rowcount of its DELETE
RemoveTagFromNote_AlwaysNotify(note_id, tag_id, raising) ==
    /\ note_tags' = note_tags \ {<<note_id, tag_id>>}
    /\ lastOp' = Call("remove_tag_from_note", note_id, tag_id, <<>>,
                      <<note_id, tag_id>> \in note_tags,
                      <<"note_tag_removed">>, Notified(raising))
    /\ UNCHANGED <<notes, tags, tag_seq, clock, observers>>
    /\ UNCHANGED <<settingsVars, autosaveVars>>

\* NoteModel.remove_tag_from_note
RemoveTagFromNote(note_id, tag_id, raising) ==
    /\ LET n == Notified(raising)
       IN  IF <<note_id, tag_id>> \notin note_tags
           THEN /\ lastOp' = Call("remove_tag_from_note", note_id, tag_id, <<>>,
                                  FALSE, <<>>, NoCall)
                /\ UNCHANGED note_tags
           ELSE /\ note_tags' = note_tags \ {<<note_id, tag_id>>}
                /\ lastOp' = Call("remove_tag_from_note", note_id, tag_id, <<>>,
                                  ~n.propagated, <<"note_tag_removed">>, n)
    /\ UNCHANGED <<notes, tags, tag_seq, clock, observers>>
    /\ UNCHANGED <<settingsVars, autosaveVars>>

---------------------------------------------------------------------------
(* TagModel *)

DefaultColor == <<"#", "0", "0", "7", "A", "C", "C">>

HexChars == { "0", "1", "2", "3", "4", "5", "6", "7", "8", "9",
              "A", "B", "C", "D", "E", "F", "a", "b", "c", "d", "e", "f" }

\* # and three or six hex digits, nothing else
hex_color(color) ==
    /\ Len(color) \in {4, 7}
    /\ color[1] = "#"
    /\ \A i \in 2..Len(color) : color[i] \in HexChars

\* _validate_color: re.match of ^#([A-Fa-f0-9]{6}|[A-Fa-f0-9]{3})$, whose $
\* matches at the end of the string and before a newline that ends it
_validate_color(color) ==
    \/ hex_color(color)
    \/ /\ Len(color) > 0
       /\ color[Len(color)] = "\n"
       /\ hex_color(SubSeq(color, 1, Len(color) - 1))

\* get_by_name comparing with the name as typed
get_by_name_NoStrip(ts, name) ==
    { t \in DOMAIN ts : ts[t].name = name }

\* get_by_name: WHERE name = name.strip(), as a set of at most one tag id
get_by_name(ts, name) ==
    { t \in DOMAIN ts : ts[t].name = strip(name) }

\* _get_tag_note_count: COUNT(DISTINCT note_id) over the notes not deleted
_get_tag_note_count(ns, nt, tag_id) ==
    Cardinality({ n \in 1..Len(ns) :
                    <<n, tag_id>> \in nt /\ ns[n].is_deleted = 0 })

TagData(fields, name, color) ==
    [fields |-> fields, name |-> name, color |-> color]

TagUpdateInputs(names, colors) ==
    { d \in [fields : SUBSET {"name", "color"},
             name : names \cup {<<>>}, color : colors \cup {<<>>}] :
        /\ "name" \notin d.fields <=> d.name = <<>>
        /\ "color" \notin d.fields <=> d.color = <<>> }

\* create that stores the name as typed, without strip()
tag_create_NoStrip(ts, seq, now, name, color) ==
    LET tag_id == seq + 1
    IN  IF name = <<>> \/ \E t \in DOMAIN ts : ts[t].name = name
        THEN [ok |-> FALSE, id |-> None, tags |-> ts, tag_seq |-> seq]
        ELSE [ok |-> TRUE, id |-> tag_id,
              tags |-> [t \in DOMAIN ts \cup {tag_id} |->
                          IF t = tag_id
                          THEN [name |-> name, color |-> color,
                                created_at |-> now]
                          ELSE ts[t]],
              tag_seq |-> tag_id]

\* the result of TagModel.create on the table; color <<>> is a dict without
\* 'color' (the default is taken)
tag_create(ts, seq, now, name, color) ==
    LET nm == strip(name)
        given == IF color = <<>> THEN DefaultColor ELSE color
        col == IF _validate_color(given) THEN given ELSE DefaultColor
        tag_id == seq + 1
    IN  IF nm = <<>> \/ get_by_name(ts, nm) # {}
        THEN [ok |-> FALSE, id |-> None, tags |-> ts, tag_seq |-> seq]
        ELSE IF \E t \in DOMAIN ts : ts[t].name = nm      \* name TEXT UNIQUE
        THEN [ok |-> FALSE, id |-> None, tags |-> ts, tag_seq |-> seq]
        ELSE [ok |-> TRUE, id |-> tag_id,
              tags |-> [t \in DOMAIN ts \cup {tag_id} |->
                          IF t = tag_id
                          THEN [name |-> nm, color |-> col, created_at |-> now]
                          ELSE ts[t]],
              tag_seq |-> tag_id]

\* TagModel.create
TagCreate(name, color, raising) ==
    /\ LET r == tag_create(tags, tag_seq, get_current_timestamp, name, color)
           n == Notified(raising)
       IN  /\ r.ok => tag_seq < MaxTags
           /\ tags' = r.tags
           /\ tag_seq' = r.tag_seq
           /\ lastOp' = IF r.ok
                        THEN Call("tag_create", None, r.id, strip(name), ~n.propagated,
                                  <<"tag_created">>, n)
                        ELSE Call("tag_create", None, None, strip(name), FALSE, <<>>, NoCall)
    /\ UNCHANGED <<notes, note_tags, clock, observers>>
    /\ UNCHANGED <<settingsVars, autosaveVars>>

\* the result of TagModel.update on the table
tag_update(ts, tag_id, data) ==
    LET nm == strip(data.name)
        fail == [ok |-> FALSE, tags |-> ts]
    IN  IF tag_id \notin DOMAIN ts THEN fail
        ELSE IF "name" \in data.fields /\ nm = <<>> THEN fail
        ELSE IF "name" \in data.fields /\ get_by_name(ts, nm) \ {tag_id} # {}
        THEN fail
        ELSE IF "color" \in data.fields /\ ~_validate_color(data.color)
        THEN fail
        ELSE IF data.fields = {} THEN fail
        ELSE [ok |-> TRUE,
              tags |-> [ts EXCEPT
                  ![tag_id].name = IF "name" \in data.fields THEN nm ELSE @,
                  ![tag_id].color = IF "color" \in data.fields
                                    THEN data.color ELSE @]]

\* TagModel.update
TagUpdate(tag_id, data, raising) ==
    /\ LET r == tag_update(tags, tag_id, data)
           n == Notified(raising)
       IN  /\ tags' = r.tags
           /\ lastOp' = IF r.ok
                        THEN Call("tag_update", None, tag_id, <<>>, ~n.propagated,
                                  <<"tag_updated">>, n)
                        ELSE Call("tag_update", None, tag_id, <<>>, FALSE, <<>>,
                                  NoCall)
    /\ UNCHANGED <<notes, tag_seq, note_tags, clock, observers>>
    /\ UNCHANGED <<settingsVars, autosaveVars>>

\* delete without the check that the tag is in use
tag_delete_NoUseCheck(ns, ts, nt, tag_id) ==
    IF tag_id \notin DOMAIN ts
    THEN [ok |-> FALSE, tags |-> ts, note_tags |-> nt]
    ELSE LET d == delete_tag_row(ts, nt, tag_id)
         IN  [ok |-> d.rowcount > 0, tags |-> d.tags, note_tags |-> d.note_tags]

\* the result of TagModel.delete on the tables
tag_delete(ns, ts, nt, tag_id) ==
    IF tag_id \notin DOMAIN ts \/ _get_tag_note_count(ns, nt, tag_id) > 0
    THEN [ok |-> FALSE, tags |-> ts, note_tags |-> nt]
    ELSE LET d == delete_tag_row(ts, nt, tag_id)
         IN  [ok |-> d.rowcount > 0, tags |-> d.tags, note_tags |-> d.note_tags]

\* TagModel.delete
TagDelete(tag_id, raising) ==
    /\ LET r == tag_delete(notes, tags, note_tags, tag_id)
           n == Notified(raising)
       IN  /\ tags' = r.tags
           /\ note_tags' = r.note_tags
           /\ lastOp' = IF r.ok
                        THEN Call("tag_delete", None, tag_id, <<>>, ~n.propagated,
                                  <<"tag_deleted">>, n)
                        ELSE Call("tag_delete", None, tag_id, <<>>, FALSE, <<>>,
                                  NoCall)
    /\ UNCHANGED <<notes, tag_seq, clock, observers>>
    /\ UNCHANGED <<settingsVars, autosaveVars>>

\* the result of TagModel.force_delete on the tables: two statements
tag_force_delete(ts, nt, tag_id) ==
    IF tag_id \notin DOMAIN ts
    THEN [ok |-> FALSE, tags |-> ts, note_tags |-> nt]
    ELSE LET unlinked == { r \in nt : r[2] # tag_id }
             d == delete_tag_row(ts, unlinked, tag_id)
         IN  [ok |-> d.rowcount > 0, tags |-> d.tags, note_tags |-> d.note_tags]

\* TagModel.force_delete
TagForceDelete(tag_id, raising) ==
    /\ LET r == tag_force_delete(tags, note_tags, tag_id)
           n == Notified(raising)
       IN  /\ tags' = r.tags
           /\ note_tags' = r.note_tags
           /\ lastOp' = IF r.ok
                        THEN Call("tag_force_delete", None, tag_id, <<>>,
                                  ~n.propagated, <<"tag_deleted">>, n)
                        ELSE Call("tag_force_delete", None, tag_id, <<>>, FALSE,
                                  <<>>, NoCall)
    /\ UNCHANGED <<notes, tag_seq, clock, observers>>
    /\ UNCHANGED <<settingsVars, autosaveVars>>

\* TagModel.get_or_create_tag
GetOrCreateTag(name, color, raising) ==
    /\ (get_by_name(tags, name) = {} /\ strip(name) # <<>>) => tag_seq < MaxTags
    /\ LET found == get_by_name(tags, name)
           r == tag_create(tags, tag_seq, get_current_timestamp, name, color)
           n == Notified(raising)
       IN  IF found # {}
           THEN /\ lastOp' = Call("get_or_create_tag", None,
                                  CHOOSE t \in found : TRUE, strip(name), TRUE, <<>>, NoCall)
                /\ UNCHANGED <<tags, tag_seq>>
           ELSE /\ tags' = r.tags
                /\ tag_seq' = r.tag_seq
                /\ lastOp' = IF r.ok /\ ~n.propagated
                             THEN Call("get_or_create_tag", None, r.id, strip(name), TRUE,
                                       <<"tag_created">>, n)
                             ELSE Call("get_or_create_tag", None, None, strip(name), FALSE,
                                       IF r.ok THEN <<"tag_created">> ELSE <<>>,
                                       IF r.ok THEN n ELSE NoCall)
    /\ UNCHANGED <<notes, note_tags, clock, observers>>
    /\ UNCHANGED <<settingsVars, autosaveVars>>

\* a second passes between two calls
Tick ==
    /\ clock < MaxClock
    /\ clock' = clock + 1
    /\ UNCHANGED <<notes, tags, tag_seq, note_tags, observers, lastOp>>
    /\ UNCHANGED <<settingsVars, autosaveVars>>

---------------------------------------------------------------------------
(* The store: NoteModel and TagModel over one database, observed by the    *)
(* two controllers MainController._init_controllers attaches.              *)

Controllers == <<"note_controller", "tag_controller">>

InitStore ==
    /\ notes = <<>>
    /\ tags = EmptyMap
    /\ tag_seq = 0
    /\ note_tags = {}
    /\ clock = 0

InitSettings ==
    /\ settings = EmptyMap
    /\ settings_cache = EmptyMap
    /\ database = [committed |-> {}, pending |-> {},
                   in_transaction |-> FALSE, open_cursors |-> 0]
    /\ manager = [controllers |-> <<>>,
                  dependencies |-> [n \in {} |-> <<>>],
                  initialized |-> {}, calls |-> <<>>, raised |-> FALSE,
                  returned |-> FALSE]

InitAutosave ==
    /\ current_note_id = None
    /\ pending_changes = <<>>
    /\ timer_active = FALSE
    /\ auto_save_enabled = TRUE
    /\ flush = <<>>
    /\ models = {"note", "tag"}
    /\ connection = TRUE
    /\ phase = "running"

Init ==
    /\ InitStore
    /\ InitSettings
    /\ InitAutosave
    /\ observers = Controllers
    /\ lastOp = Call("init", None, None, <<>>, TRUE, <<>>, NoCall)

\* The store is explored with one content and one colour: they decide
\* nothing about the associations.  BaseController.handle_model_event catches
\* what its handlers raise, so no controller raises into notify_observers.
StoreContents == { <<"B">> }
StoreColors == { <<"#", "F", "0", "0">> }

Next ==
    \/ \E t \in TitleInputs, c \in StoreContents, l \in TagIdLists :
           NoteCreate(t, c, l, {})
    \/ \E n \in NoteIds, d \in UpdateInputs(TitleInputs, StoreContents, TagIdLists) :
           NoteUpdate(n, d, {})
    \/ \E n \in NoteIds : NoteDelete(n, {})
    \/ \E n \in NoteIds, t \in TagIds : AddTagToNote(n, t, {})
    \/ \E n \in NoteIds, t \in TagIds : RemoveTagFromNote(n, t, {})
    \/ \E nm \in NameInputs, c \in StoreColors : TagCreate(nm, c, {})
    \/ \E t \in TagIds, d \in TagUpdateInputs(NameInputs, StoreColors) :
           TagUpdate(t, d, {})
    \/ \E t \in TagIds : TagDelete(t, {})
    \/ \E t \in TagIds : TagForceDelete(t, {})
    \/ \E nm \in NameInputs, c \in StoreColors : GetOrCreateTag(nm, c, {})

Spec == Init /\ [][Next]_vars

---------------------------------------------------------------------------
(* Claims on the store *)

Live(n) == n \in 1..Len(notes) /\ notes[n].is_deleted = 0
Deleted(n) == n \in 1..Len(notes) /\ notes[n].is_deleted = 1

\* the filters the reads are tried with
ReadFilters ==
    [tag_ids : { <<>>, <<1>>, <<1, 2>> },
     search_keyword : Keywords,
     order_by : { "updated_at", "title", "rank" },
     order_direction : { "ASC", "DESC" },
     limit : 0..1, offset : 0..1]

\* C1: a note whose is_deleted flag is set is returned by none of get_by_id,
\* get_all (whatever the filter), search, get_by_tags and get_recent_notes,
\* and get_notes_count does not count it.
C1_DeletedNeverRead ==
    /\ \A n \in 1..Len(notes) : Deleted(n) =>
        /\ get_by_id(notes, n) = {}
        /\ \A f \in ReadFilters :
             \A r \in get_all(notes, note_tags, f) : n \notin Range(r)
        /\ \A k \in Keywords, l \in 0..MaxNotes :
             \A r \in search(notes, note_tags, k, l) : n \notin Range(r)
        /\ \A l \in TagIdLists :
             \A r \in get_by_tags(notes, note_tags, l) : n \notin Range(r)
        /\ \A l \in 0..MaxNotes :
             \A r \in get_recent_notes(notes, note_tags, l) : n \notin Range(r)
    /\ get_notes_count(notes) + Cardinality({ n \in 1..Len(notes) : Deleted(n) })
         = Len(notes)

\* a note was just deleted whose title matches a keyword a live note matches too
C1_Witness ==
    /\ lastOp.op = "note_delete" /\ lastOp.ok
    /\ Deleted(lastOp.id)
    /\ like_contains(notes[lastOp.id].title, <<"A">>)
    /\ \E m \in 1..Len(notes) :
         Live(m) /\ like_contains(notes[m].title, <<"A">>)

\* C2: no two stored tags have the same name, compared case-sensitively after
\* trimming; a create whose trimmed name is the name of a stored tag fails and
\* leaves the tags as they were.
C2_TagNamesUnique ==
    /\ [](\A t, u \in DOMAIN tags :
            t # u => strip(tags[t].name) # strip(tags[u].name))
    /\ [][\A nm \in NameInputs, c \in StoreColors :
            (TagCreate(nm, c, {})
               /\ \E t \in DOMAIN tags : tags[t].name = strip(nm))
            => (~lastOp'.ok /\ tags' = tags)]_vars

\* a create was refused for a name that is stored, next to a tag that differs
\* from it in case only
C2_Witness ==
    /\ lastOp.op = "tag_create" /\ ~lastOp.ok
    /\ \E t \in DOMAIN tags : tags[t].name = lastOp.arg
    /\ \E t, u \in DOMAIN tags : t # u /\ lower(tags[t].name) = lower(tags[u].name)

\* a non-deleted note is associated with the tag
InUse(t) == \E n \in 1..Len(notes) : Live(n) /\ <<n, t>> \in note_tags

\* C3: for an existing tag that a non-deleted note is associated with, delete
\* returns False and leaves the tag and every association as they were;
\* force_delete of an existing tag returns True and leaves neither the tag row
\* nor a note_tags row of that tag.
C3_DeleteInUse ==
    [][\A t \in TagIds : t \in DOMAIN tags =>
          /\ (InUse(t) /\ TagDelete(t, {})) =>
                (~lastOp'.ok /\ tags' = tags /\ note_tags' = note_tags)
          /\ TagForceDelete(t, {}) =>
                /\ lastOp'.ok
                /\ t \notin DOMAIN tags'
                /\ \A r \in note_tags' : r[2] # t]_vars

\* delete was just refused for a tag that is in use
C3_Witness ==
    /\ lastOp.op = "tag_delete" /\ ~lastOp.ok
    /\ lastOp.tag \in DOMAIN tags
    /\ InUse(lastOp.tag)

\* C4: every note_tags row refers to a row of notes and a row of tags.
C4_ReferentialIntegrity ==
    \A r \in note_tags : r[1] \in 1..Len(notes) /\ r[2] \in DOMAIN tags

\* add_tag_to_note was just refused for a tag id that is no tag, on a live note
\* that has another tag
C4_Witness ==
    /\ lastOp.op = "add_tag_to_note" /\ ~lastOp.ok
    /\ Live(lastOp.id)
    /\ lastOp.tag \notin DOMAIN tags
    /\ \E r \in note_tags : r[1] = lastOp.id

---------------------------------------------------------------------------
(* SettingsModel.  A value is its Python type and its str(): True is       *)
(* PyBool(TRUE), 5 is PyInt("5"), a quoted 5 is PyStr("5").  A key is      *)
(* <<namespace, name>>, written namespace.name in the table.               *)

PyBool(b) == [type |-> "bool",
            text |-> IF b THEN <<"T", "r", "u", "e">>
                     ELSE <<"F", "a", "l", "s", "e">>]
PyInt(digits) == [type |-> "int", text |-> digits]
PyFloat(digits) == [type |-> "float", text |-> digits]
PyStr(chars) == [type |-> "str", text |-> chars]
\* a dict, written as json.dumps writes it
PyDict(chars) == [type |-> "dict", text |-> chars]

Digits == { "0", "1", "2", "3", "4", "5", "6", "7", "8", "9" }

\* _serialize_value: json.dumps for dict/list/tuple, 'true'/'false' for bool,
\* str() for the rest
_serialize_value(value) ==
    IF value.type = "dict" THEN value.text
    ELSE IF value.type = "bool" THEN lower(value.text)
    ELSE value.text

\* int(s) succeeds: an optional sign and digits
int_literal(s) ==
    LET body == IF s # <<>> /\ Head(s) \in {"-", "+"} THEN Tail(s) ELSE s
    IN  body # <<>> /\ \A i \in 1..Len(body) : body[i] \in Digits

\* float(s) succeeds, for an s that holds a '.': an optional sign, digits and
\* the one '.', with a digit on either side of it
float_literal(s) ==
    LET body == IF s # <<>> /\ Head(s) \in {"-", "+"} THEN Tail(s) ELSE s
    IN  /\ Cardinality({ i \in 1..Len(body) : body[i] = "." }) = 1
        /\ \A i \in 1..Len(body) : body[i] \in Digits \cup {"."}
        /\ Len(body) >= 2

\* json.loads(s) succeeds with an object: the text is one {...}
json_object(s) ==
    Len(s) >= 2 /\ Head(s) = "{" /\ s[Len(s)] = "}"

\* _parse_value: boolean, then number, then JSON, then the string itself
_parse_value(s) ==
    IF lower(s) = <<"t", "r", "u", "e">> THEN PyBool(TRUE)
    ELSE IF lower(s) = <<"f", "a", "l", "s", "e">> THEN PyBool(FALSE)
    ELSE IF (\E i \in 1..Len(s) : s[i] = ".") /\ float_literal(s)
    THEN PyFloat(s)
    ELSE IF ~(\E i \in 1..Len(s) : s[i] = ".") /\ int_literal(s)
    THEN PyInt(s)
    ELSE IF json_object(s) THEN PyDict(s)
    ELSE PyStr(s)

\* load_default_settings: default_settings, in the order of the dict
default_settings == <<
    <<<<"window", "width">>, PyInt(<<"1", "2", "0", "0">>)>>,
    <<<<"window", "height">>, PyInt(<<"8", "0", "0">>)>>,
    <<<<"window", "x">>, PyInt(<<"-", "1">>)>>,
    <<<<"window", "y">>, PyInt(<<"-", "1">>)>>,
    <<<<"window", "maximized">>, PyBool(FALSE)>>,
    <<<<"window", "edge_trigger_width">>, PyInt(<<"5">>)>>,
    <<<<"window", "peek_width">>, PyInt(<<"3", "0", "0">>)>>,
    <<<<"window", "hide_delay">>, PyInt(<<"2", "0", "0", "0">>)>>,
    <<<<"window", "always_on_top">>, PyBool(FALSE)>>,
    <<<<"ui", "theme">>, PyStr(<<"a", "u", "t", "o">>)>>,
    <<<<"ui", "language">>, PyStr(<<"z", "h", "_", "C", "N">>)>>,
    <<<<"ui", "font_size">>, PyInt(<<"1", "2">>)>>,
    <<<<"ui", "animation_enabled">>, PyBool(TRUE)>>,
    <<<<"features", "auto_save">>, PyBool(TRUE)>>,
    <<<<"features", "auto_save_interval">>, PyInt(<<"3", "0">>)>>,
    <<<<"features", "spell_check">>, PyBool(FALSE)>>,
    <<<<"features", "word_wrap">>, PyBool(TRUE)>>,
    <<<<"features", "show_line_numbers">>, PyBool(FALSE)>>,
    <<<<"search", "max_results">>, PyInt(<<"1", "0", "0">>)>>,
    <<<<"search", "highlight_enabled">>, PyBool(TRUE)>>,
    <<<<"search", "fuzzy_search">>, PyBool(TRUE)>>,
    <<<<"search", "case_sensitive">>, PyBool(FALSE)>>,
    <<<<"backup", "enabled">>, PyBool(TRUE)>>,
    <<<<"backup", "interval_days">>, PyInt(<<"7">>)>>,
    <<<<"backup", "max_backups">>, PyInt(<<"1", "0">>)>>,
    <<<<"performance", "cache_enabled">>, PyBool(TRUE)>>,
    <<<<"performance", "cache_size_mb">>, PyInt(<<"5", "0">>)>>,
    <<<<"performance", "lazy_load">>, PyBool(TRUE)>>
>>

\* the keys and values the setters are called with: a default key, a key of
\* another namespace that is no default; every type, and strings that read as
\* a number and as a boolean
SettingKeys == { <<"ui", "theme">>, <<"app", "first_run">> }
SettingValues ==
    { PyBool(FALSE), PyInt(<<"5">>), PyFloat(<<"1", ".", "5">>), PyStr(<<"a">>),
      PyStr(<<"5">>), PyDict(<<"{", "a", ":", "1", "}">>) }
Prefixes == { "ui", "app", "" }

\* the dicts set_settings_batch and import_settings are called with
SettingDicts ==
    UNION { [K -> SettingValues] : K \in SUBSET SettingKeys }

\* the table and the cache after set_setting(key, value): UPDATE or INSERT,
\* then the cache takes the value
set_setting(st, key, value) ==
    LET text == _serialize_value(value)
        db == st.settings
        c == st.cache
    IN  [settings |-> [k \in DOMAIN db \cup {key} |->
                         IF k = key THEN text ELSE db[k]],
         cache |-> [k \in DOMAIN c \cup {key} |->
                         IF k = key THEN value ELSE c[k]]]

\* get_setting: the cache first, then the table (whose parsed value is cached)
get_setting(st, key) ==
    IF key \in DOMAIN st.cache
    THEN [found |-> TRUE, value |-> st.cache[key], st |-> st]
    ELSE IF key \in DOMAIN st.settings
    THEN LET v == _parse_value(st.settings[key])
         IN  [found |-> TRUE, value |-> v,
              st |-> [st EXCEPT !.cache =
                        [k \in DOMAIN @ \cup {key} |->
                           IF k = key THEN v ELSE @[k]]]]
    ELSE [found |-> FALSE, value |-> PyStr(<<>>), st |-> st]

\* a loop of set_setting over the items of a dict, in some order of its keys
RECURSIVE set_each(_, _, _)
set_each(st, dict, keys) ==
    IF keys = {} THEN st
    ELSE LET k == CHOOSE x \in keys : TRUE
         IN  set_each(set_setting(st, k, dict[k]), dict, keys \ {k})

\* load_default_settings: set each default whose get_setting is None
RECURSIVE load_default_settings(_, _)
load_default_settings(st, defaults) ==
    IF defaults = <<>> THEN st
    ELSE LET key == Head(defaults)[1]
             g == get_setting(st, key)
             st1 == IF g.found THEN g.st
                    ELSE set_setting(g.st, key, Head(defaults)[2])
         IN  load_default_settings(st1, Tail(defaults))

SettingsState == [settings |-> settings, cache |-> settings_cache]

SettingsCall(op, key, ok) ==
    Call(op, None, None, key, ok, <<>>, NoCall)

SettingsFrame ==
    /\ UNCHANGED <<storeVars, clock, observers>>
    /\ UNCHANGED autosaveVars
    /\ UNCHANGED <<database, manager>>

\* SettingsModel.set_setting
SetSetting(key, value) ==
    /\ LET st == set_setting(SettingsState, key, value)
       IN  /\ settings' = st.settings
           /\ settings_cache' = st.cache
    /\ lastOp' = SettingsCall("set_setting", key, TRUE)
    /\ SettingsFrame

\* SettingsModel.get_setting
GetSetting(key) ==
    /\ LET g == get_setting(SettingsState, key)
       IN  /\ settings' = g.st.settings
           /\ settings_cache' = g.st.cache
           /\ lastOp' = SettingsCall("get_setting", key, g.found)
    /\ SettingsFrame

\* SettingsModel.delete_setting
DeleteSetting(key) ==
    /\ IF key \in DOMAIN settings
       THEN /\ settings' = [k \in DOMAIN settings \ {key} |-> settings[k]]
            /\ settings_cache' =
                 [k \in DOMAIN settings_cache \ {key} |-> settings_cache[k]]
            /\ lastOp' = SettingsCall("delete_setting", key, TRUE)
       ELSE /\ UNCHANGED <<settings, settings_cache>>
            /\ lastOp' = SettingsCall("delete_setting", key, FALSE)
    /\ SettingsFrame

\* SettingsModel.get_settings_by_prefix: key LIKE 'prefix%'; every row read
\* has its parsed value put in the cache
GetSettingsByPrefix(prefix) ==
    /\ LET hit == { k \in DOMAIN settings : prefix = "" \/ k[1] = prefix }
       IN  settings_cache' =
             [k \in DOMAIN settings_cache \cup hit |->
                IF k \in hit THEN _parse_value(settings[k])
                ELSE settings_cache[k]]
    /\ lastOp' = SettingsCall("get_settings_by_prefix", <<prefix>>, TRUE)
    /\ UNCHANGED settings
    /\ SettingsFrame

\* SettingsModel.set_settings_batch
SetSettingsBatch(dict) ==
    /\ LET st == set_each(SettingsState, dict, DOMAIN dict)
       IN  /\ settings' = st.settings
           /\ settings_cache' = st.cache
    /\ lastOp' = SettingsCall("set_settings_batch", <<>>, TRUE)
    /\ SettingsFrame

\* SettingsModel.import_settings
ImportSettings(dict) ==
    /\ LET st == set_each(SettingsState, dict, DOMAIN dict)
       IN  /\ settings' = st.settings
           /\ settings_cache' = st.cache
    /\ lastOp' = SettingsCall("import_settings", <<>>, DOMAIN dict # {})
    /\ SettingsFrame

\* SettingsModel.reset_to_defaults: DELETE FROM settings, the cache cleared,
\* the defaults loaded
ResetToDefaults ==
    /\ LET st == load_default_settings(
                     [settings |-> EmptyMap, cache |-> EmptyMap],
                     default_settings)
       IN  /\ settings' = st.settings
           /\ settings_cache' = st.cache
    /\ lastOp' = SettingsCall("reset_to_defaults", <<>>, TRUE)
    /\ SettingsFrame

\* SettingsModel.__init__ on the same database (the application starts
\* again): _load_all_settings parses every row into an empty cache
NewSettingsModel ==
    /\ settings_cache' = [k \in DOMAIN settings |-> _parse_value(settings[k])]
    /\ lastOp' = SettingsCall("__init__", <<>>, TRUE)
    /\ UNCHANGED settings
    /\ SettingsFrame

NextSettings ==
    \/ \E k \in SettingKeys, v \in SettingValues : SetSetting(k, v)
    \/ \E k \in SettingKeys : GetSetting(k)
    \/ \E k \in SettingKeys : DeleteSetting(k)
    \/ \E p \in Prefixes : GetSettingsByPrefix(p)
    \/ \E d \in SettingDicts : SetSettingsBatch(d)
    \/ \E d \in SettingDicts : ImportSettings(d)
    \/ ResetToDefaults
    \/ NewSettingsModel

SpecSettings == Init /\ [][NextSettings]_vars

\* C5: every key of the cache is a key of the settings table, and its cached
\* value is the value the stored string parses to.
C5_CacheAgreesWithStorage ==
    \A k \in DOMAIN settings_cache :
        /\ k \in DOMAIN settings
        /\ settings_cache[k] = _parse_value(settings[k])

---------------------------------------------------------------------------
(* NoteController: update_note, delete_note, select_note and the debounced *)
(* autosave.  _pending_changes is a dict: a sequence of entries, one per   *)
(* key, in insertion order.                                                *)

\* the dicts the editor hands to schedule_auto_save: {'title': text} on a
\* change of the title, {'content': text} on a change of the content
EditTitles == { <<" ">>, <<"a", " ">> }
EditContents == { <<"B">> }
EditInputs ==
    { d \in UpdateInputs(EditTitles, EditContents, {<<>>}) :
        d.fields \in { {"title"}, {"content"} } }

\* the position of the key note_id in the dict, 0 when it has no such key
key_index(pending, note_id) ==
    LET hits == { i \in 1..Len(pending) : pending[i].note_id = note_id }
    IN  IF hits = {} THEN 0 ELSE CHOOSE i \in hits : TRUE

\* dict.update(data): the keys of data take the values of data
dict_update(old, data) ==
    Data(old.fields \cup data.fields,
         IF "title" \in data.fields THEN data.title ELSE old.title,
         IF "content" \in data.fields THEN data.content ELSE old.content,
         <<>>)

\* schedule_auto_save that forgets what it had for the note
schedule_auto_save_Overwrite(pending, note_id, data) ==
    LET i == key_index(pending, note_id)
        e == [note_id |-> note_id, changes |-> data]
    IN  IF i = 0 THEN Append(pending, e) ELSE [pending EXCEPT ![i] = e]

\* _pending_changes after schedule_auto_save(note_id, data), auto-save enabled
schedule_auto_save(pending, note_id, data) ==
    LET empty == [note_id |-> note_id, changes |-> Data({}, <<>>, <<>>, <<>>)]
        p == IF key_index(pending, note_id) = 0
             THEN Append(pending, empty) ELSE pending
    IN  [p EXCEPT ![key_index(p, note_id)].changes = dict_update(@, data)]

\* update_note after note_model.update(note_id, data): its result, and the
\* tables as update left them
model_result(r) ==
    [ok |-> r.ok, to_model |-> TRUE, notes |-> r.notes,
     note_tags |-> r.note_tags]

\* NoteController.update_note: no model, or a blank title, is an error result
\* without a call of NoteModel.update
update_note(ms, ns, ts, nt, now, note_id, data) ==
    IF "note" \notin ms
    THEN [ok |-> FALSE, to_model |-> FALSE, notes |-> ns, note_tags |-> nt]
    ELSE IF "title" \in data.fields /\ strip(data.title) = <<>>
    THEN [ok |-> FALSE, to_model |-> FALSE, notes |-> ns, note_tags |-> nt]
    ELSE model_result(note_update(ns, ts, nt, now, note_id, data))

\* one pass of the loop of _save_pending_changes: the item h was handed to
\* update_note, with the outcome r
save_step(st, h, r, attached) ==
    [notes |-> r.notes, note_tags |-> r.note_tags,
     flush |-> Append(st.flush,
                      [note_id |-> h.note_id, changes |-> h.changes,
                       ok |-> r.ok, to_model |-> r.to_model,
                       attached |-> attached])]

\* the loop of _save_pending_changes: update_note for each item, in order
RECURSIVE save_each(_, _, _, _, _)
save_each(ms, ts, now, pending, st) ==
    IF pending = <<>> THEN st
    ELSE save_each(ms, ts, now, Tail(pending),
                   save_step(st, Head(pending),
                             update_note(ms, st.notes, ts, st.note_tags, now,
                                         Head(pending).note_id,
                                         Head(pending).changes),
                             "note" \in ms))

\* self._pending_changes.clear() after the loop
pending_cleared(st) ==
    [notes |-> st.notes, note_tags |-> st.note_tags, flush |-> st.flush,
     pending |-> <<>>]

\* _save_pending_changes: the loop, then _pending_changes.clear().  update_note
\* returns a result for every failure, so the loop never raises.
_save_pending_changes(ms, ns, ts, nt, now, pending) ==
    pending_cleared(save_each(ms, ts, now, pending,
                              [notes |-> ns, note_tags |-> nt,
                               flush |-> <<>>]))

\* the events of the updates of a flush: one NOTE_UPDATED per success
RECURSIVE flush_events(_)
flush_events(fl) ==
    IF fl = <<>> THEN <<>>
    ELSE (IF Head(fl).ok THEN <<"note_updated">> ELSE <<>>)
         \o flush_events(Tail(fl))

ControllerCall(op, id, arg, ok, fl) ==
    Call(op, id, None, arg, ok, flush_events(fl),
         IF \E k \in 1..Len(fl) : fl[k].ok THEN Notified({}) ELSE NoCall)

AutosaveFrame ==
    /\ UNCHANGED <<tags, tag_seq, clock, observers>>
    /\ UNCHANGED settingsVars

\* NoteController.schedule_auto_save
ScheduleAutoSave(note_id, data) ==
    /\ phase = "running"
    /\ IF ~auto_save_enabled
       THEN /\ UNCHANGED <<pending_changes, timer_active>>
            /\ lastOp' = ControllerCall("schedule_auto_save", note_id, data,
                                        FALSE, <<>>)
       ELSE /\ pending_changes' =
                   schedule_auto_save(pending_changes, note_id, data)
            /\ timer_active' = TRUE
            /\ lastOp' = ControllerCall("schedule_auto_save", note_id, data,
                                        TRUE, <<>>)
    /\ flush' = <<>>
    /\ UNCHANGED <<notes, note_tags, current_note_id, auto_save_enabled,
                   models, connection, phase>>
    /\ AutosaveFrame

\* the single-shot timer fires: _auto_save_current_note
TimerExpiry ==
    /\ phase = "running"
    /\ timer_active
    /\ \E r \in { _save_pending_changes(models, notes, tags, note_tags,
                                        get_current_timestamp,
                                        pending_changes) } :
           /\ notes' = r.notes
           /\ note_tags' = r.note_tags
           /\ pending_changes' = r.pending
           /\ flush' = r.flush
           /\ lastOp' = ControllerCall("_auto_save_current_note", None, <<>>,
                                       TRUE, r.flush)
    /\ timer_active' = FALSE
    /\ UNCHANGED <<current_note_id, auto_save_enabled, models, connection,
                   phase>>
    /\ AutosaveFrame

\* self._current_note_id = note_id, after the flush with the outcome r
selected(r, note_id) ==
    [notes |-> r.notes, note_tags |-> r.note_tags, flush |-> r.flush,
     pending |-> r.pending, current |-> note_id]

\* select_note: the flush is under "if self._current_note_id and
\* self._pending_changes"
select_note(cur, ms, ns, ts, nt, now, pending, note_id) ==
    IF cur = note_id
    THEN [notes |-> ns, note_tags |-> nt, flush |-> <<>>,
          pending |-> pending, current |-> cur]
    ELSE IF cur # None /\ pending # <<>>
    THEN selected(_save_pending_changes(ms, ns, ts, nt, now, pending),
                  note_id)
    ELSE [notes |-> ns, note_tags |-> nt, flush |-> <<>>,
          pending |-> pending, current |-> note_id]

\* NoteController.select_note
SelectNote(note_id) ==
    /\ phase = "running"
    /\ \E r \in { select_note(current_note_id, models, notes, tags,
                              note_tags, get_current_timestamp,
                              pending_changes, note_id) } :
           /\ notes' = r.notes
           /\ note_tags' = r.note_tags
           /\ pending_changes' = r.pending
           /\ flush' = r.flush
           /\ current_note_id' = r.current
           /\ lastOp' = ControllerCall("select_note", note_id, <<>>, TRUE,
                                       r.flush)
    /\ UNCHANGED <<timer_active, auto_save_enabled, models, connection, phase>>
    /\ AutosaveFrame

\* self._auto_save_timer.stop(), with the outcome r of the flush
timer_stopped(r) ==
    [notes |-> r.notes, note_tags |-> r.note_tags, flush |-> r.flush,
     pending |-> r.pending, timer_active |-> FALSE]

\* force_save_all: the timer stopped, then _save_pending_changes
force_save_all(ms, ns, ts, nt, now, pending) ==
    timer_stopped(_save_pending_changes(ms, ns, ts, nt, now, pending))

\* NoteController.force_save_all
ForceSaveAll ==
    /\ phase = "running"
    /\ \E r \in { force_save_all(models, notes, tags, note_tags,
                                 get_current_timestamp, pending_changes) } :
           /\ notes' = r.notes
           /\ note_tags' = r.note_tags
           /\ pending_changes' = r.pending
           /\ flush' = r.flush
           /\ timer_active' = r.timer_active
           /\ lastOp' = ControllerCall("force_save_all", None, <<>>, TRUE,
                                       r.flush)
    /\ UNCHANGED <<current_note_id, auto_save_enabled, models, connection,
                   phase>>
    /\ AutosaveFrame

\* NoteController.set_auto_save_enabled
SetAutoSaveEnabled(enabled) ==
    /\ phase = "running"
    /\ auto_save_enabled' = enabled
    /\ timer_active' = IF ~enabled THEN FALSE ELSE timer_active
    /\ flush' = <<>>
    /\ lastOp' = ControllerCall("set_auto_save_enabled", None, <<>>, enabled,
                                <<>>)
    /\ UNCHANGED <<notes, note_tags, current_note_id, pending_changes, models,
                   connection, phase>>
    /\ AutosaveFrame

\* NoteController.delete_note
DeleteNote(note_id) ==
    /\ phase = "running"
    /\ \E r \in { note_delete(notes, note_tags, get_current_timestamp,
                              note_id) } :
           /\ notes' = r.notes
           /\ note_tags' = r.note_tags
           /\ current_note_id' = IF r.ok /\ current_note_id = note_id
                                 THEN None ELSE current_note_id
           /\ lastOp' = Call("delete_note", note_id, None, <<>>, r.ok,
                             IF r.ok THEN <<"note_deleted">> ELSE <<>>,
                             IF r.ok THEN Notified({}) ELSE NoCall)
    /\ flush' = <<>>
    /\ UNCHANGED <<pending_changes, timer_active, auto_save_enabled, models,
                   connection, phase>>
    /\ AutosaveFrame

---------------------------------------------------------------------------
(* MainController.cleanup, by position: the guard, then                    *)
(* cleanup_all_controllers over 'note' and 'tag' in registration order,    *)
(* then db_manager.close(), then the exit.  Nothing else runs in between:  *)
(* the event loop is not running.                                          *)

\* BaseController.cleanup of the note controller, after the flush with the
\* outcome r: remove_observer on every model, _models.clear()
detached(r, obs) ==
    [notes |-> r.notes, note_tags |-> r.note_tags, flush |-> r.flush,
     pending |-> r.pending, timer_active |-> r.timer_active,
     observers |-> remove_observer(obs, "note_controller"),
     models |-> {}]

\* NoteController.cleanup that detaches before it saves
note_controller_cleanup_DetachFirst(obs, ms, ns, ts, nt, now, pending) ==
    detached(force_save_all({}, ns, ts, nt, now, pending), obs)

\* NoteController.cleanup: force_save_all(), then BaseController.cleanup
note_controller_cleanup(obs, ms, ns, ts, nt, now, pending) ==
    detached(force_save_all(ms, ns, ts, nt, now, pending), obs)

\* MainController.cleanup is entered: _is_cleaning_up is set (a second call
\* returns at the guard)
MainControllerCleanup ==
    /\ phase = "running"
    /\ phase' = "cleanup_all_controllers"
    /\ flush' = <<>>
    /\ lastOp' = ControllerCall("cleanup", None, <<>>, TRUE, <<>>)
    /\ UNCHANGED <<notes, note_tags, current_note_id, pending_changes,
                   timer_active, auto_save_enabled, models, connection>>
    /\ AutosaveFrame

\* cleanup_all_controllers: NoteController.cleanup
NoteControllerCleanup ==
    /\ phase = "cleanup_all_controllers"
    /\ \E r \in { note_controller_cleanup(observers, models, notes, tags,
                                          note_tags, get_current_timestamp,
                                          pending_changes) } :
           /\ notes' = r.notes
           /\ note_tags' = r.note_tags
           /\ pending_changes' = r.pending
           /\ flush' = r.flush
           /\ timer_active' = r.timer_active
           /\ observers' = r.observers
           /\ models' = r.models
           /\ lastOp' = ControllerCall("note_controller_cleanup", None, <<>>,
                                       TRUE, r.flush)
    /\ phase' = "tag_controller_cleanup"
    /\ UNCHANGED <<current_note_id, auto_save_enabled, connection>>
    /\ UNCHANGED <<tags, tag_seq, clock, settingsVars>>

\* cleanup_all_controllers: TagController.cleanup
TagControllerCleanup ==
    /\ phase = "tag_controller_cleanup"
    /\ observers' = remove_observer(observers, "tag_controller")
    /\ phase' = "db_close"
    /\ flush' = <<>>
    /\ lastOp' = ControllerCall("tag_controller_cleanup", None, <<>>, TRUE, <<>>)
    /\ UNCHANGED <<notes, note_tags, current_note_id, pending_changes,
                   timer_active, auto_save_enabled, models, connection>>
    /\ UNCHANGED <<tags, tag_seq, clock, settingsVars>>

\* db_manager.close()
DatabaseClose ==
    /\ phase = "db_close"
    /\ connection' = FALSE
    /\ phase' = "exit"
    /\ flush' = <<>>
    /\ lastOp' = ControllerCall("close", None, <<>>, TRUE, <<>>)
    /\ UNCHANGED <<notes, note_tags, current_note_id, pending_changes,
                   timer_active, auto_save_enabled, models>>
    /\ AutosaveFrame

\* app.quit() and sys.exit(0)
Exit ==
    /\ phase = "exit"
    /\ phase' = "exited"
    /\ flush' = <<>>
    /\ lastOp' = ControllerCall("exit", None, <<>>, TRUE, <<>>)
    /\ UNCHANGED <<notes, note_tags, current_note_id, pending_changes,
                   timer_active, auto_save_enabled, models, connection>>
    /\ AutosaveFrame

\* The editor over the store: notes are created with the title the view
\* gives a new note, edited through the autosave, deleted, and the
\* application is shut down.  The editor schedules a save for a note it has
\* loaded.
NewNoteTitles == { <<"a">> }
NewNoteContents == { <<>> }

NextAutosave ==
    \/ \E t \in NewNoteTitles, c \in NewNoteContents :
           phase = "running" /\ NoteCreate(t, c, <<>>, {})
    \/ \E n \in 1..Len(notes), d \in EditInputs : ScheduleAutoSave(n, d)
    \/ TimerExpiry
    \/ \E n \in NoteIds : SelectNote(n)
    \/ ForceSaveAll
    \/ \E b \in BOOLEAN : SetAutoSaveEnabled(b)
    \/ \E n \in NoteIds : DeleteNote(n)
    \/ MainControllerCleanup
    \/ NoteControllerCleanup
    \/ TagControllerCleanup
    \/ DatabaseClose
    \/ Exit

SpecAutosave == Init /\ [][NextAutosave]_vars

---------------------------------------------------------------------------
(* Claims on the autosave *)

\* the calls that run _save_pending_changes
FlushOps == { "_auto_save_current_note", "force_save_all", "select_note",
              "note_controller_cleanup" }

\* the updates of this step are the pending entries, one per note, in order,
\* each with the changes accumulated for it
SubmitsAllPending ==
    /\ Len(flush') = Len(pending_changes)
    /\ \A k \in 1..Len(pending_changes) :
          /\ flush'[k].note_id = pending_changes[k].note_id
          /\ flush'[k].changes = pending_changes[k].changes

\* the changes pending for note n, the empty dict when there are none
PendingFor(pending, n) ==
    IF key_index(pending, n) = 0 THEN Data({}, <<>>, <<>>, <<>>)
    ELSE pending[key_index(pending, n)].changes

\* C6: a schedule_auto_save(n, d) made with auto-save enabled issues no
\* update; it leaves exactly one pending entry for n, holding what was pending
\* for n with every field of d replaced by the value of d (latest wins), and
\* leaves the entries of the other notes alone.  The next timer expiry or
\* force_save_all issues exactly one update per pending note, with that
\* accumulated field map.
C6_DebounceCoalescing ==
    [][ /\ (lastOp'.op = "schedule_auto_save" /\ auto_save_enabled) =>
            LET n == lastOp'.id
                d == lastOp'.arg
                old == PendingFor(pending_changes, n)
                new == PendingFor(pending_changes', n)
            IN  /\ flush' = <<>>
                /\ notes' = notes
                /\ Cardinality({ k \in 1..Len(pending_changes') :
                                   pending_changes'[k].note_id = n }) = 1
                /\ new.fields = old.fields \cup d.fields
                /\ "title" \in d.fields => new.title = d.title
                /\ "content" \in d.fields => new.content = d.content
                /\ "title" \in old.fields \ d.fields => new.title = old.title
                /\ "content" \in old.fields \ d.fields =>
                       new.content = old.content
                /\ \A k \in 1..Len(pending_changes) :
                       pending_changes[k].note_id # n =>
                           pending_changes'[k] = pending_changes[k]
                /\ timer_active'
        /\ lastOp'.op \in { "_auto_save_current_note", "force_save_all" } =>
               SubmitsAllPending
        /\ (lastOp'.op \in FlushOps /\ flush' # <<>>) => SubmitsAllPending
      ]_vars

\* a timer expiry has issued one update that holds a title and a content:
\* two edits of the same note, coalesced
C6_Witness ==
    /\ lastOp.op = "_auto_save_current_note"
    /\ \E k \in 1..Len(flush) :
          /\ flush[k].changes.fields = {"title", "content"}
          /\ flush[k].ok

\* C7: when an update of a flush fails, the note's accumulated changes are
\* still in the pending map after the flush.
C7_FailedWriteStaysDirty ==
    [][ lastOp'.op \in FlushOps =>
          \A k \in 1..Len(flush') :
              ~flush'[k].ok =>
                  /\ key_index(pending_changes', flush'[k].note_id) # 0
                  /\ PendingFor(pending_changes', flush'[k].note_id)
                         = flush'[k].changes
      ]_vars

\* C8: select_note(n) with n other than the current selection, a selection
\* of None included, submits the changes of every pending note and returns
\* with an empty pending map and n as the current note.
C8_SelectFlushesFirst ==
    [][ (lastOp'.op = "select_note" /\ lastOp'.id # current_note_id) =>
          /\ SubmitsAllPending
          /\ pending_changes' = <<>>
          /\ current_note_id' = lastOp'.id
      ]_vars

\* the changes hold a title that strips to nothing
BlankTitle(changes) ==
    "title" \in changes.fields /\ strip(changes.title) = <<>>

\* C9 as stated: at shutdown every pending note's changes reach
\* NoteModel.update, with the note model attached and the connection open;
\* once the connection is closed the timer is stopped and nothing is saved.
C9_ShutdownSubmitsToModel ==
    /\ [][ lastOp'.op = "note_controller_cleanup" =>
             /\ SubmitsAllPending
             /\ \A k \in 1..Len(flush') :
                    flush'[k].attached /\ flush'[k].to_model
             /\ "note" \in models /\ connection
             /\ pending_changes' = <<>> /\ ~timer_active'
         ]_vars
    /\ [](~connection => ~timer_active /\ pending_changes = <<>>)
    /\ [][~connection => flush' = <<>>]_vars

\* C9: at shutdown every pending note's changes are handed to update_note,
\* with the note model attached and the connection open; they reach
\* NoteModel.update unless their title is blank.  Once the connection is
\* closed the timer is stopped, nothing is pending and nothing is saved.
C9_ShutdownFlushes ==
    /\ [][ lastOp'.op = "note_controller_cleanup" =>
             /\ SubmitsAllPending
             /\ \A k \in 1..Len(flush') :
                    /\ flush'[k].attached
                    /\ flush'[k].to_model <=> ~BlankTitle(flush'[k].changes)
             /\ "note" \in models /\ connection
             /\ pending_changes' = <<>> /\ ~timer_active'
         ]_vars
    /\ [](~connection => ~timer_active /\ pending_changes = <<>>)
    /\ [][~connection => flush' = <<>>]_vars

\* the application has shut down with a note pending, whose changes
\* NoteModel.update took
C9_Witness ==
    /\ lastOp.op = "note_controller_cleanup"
    /\ models = {}
    /\ \E k \in 1..Len(flush) : flush[k].to_model /\ flush[k].ok

---------------------------------------------------------------------------
(* The observer fan-out: observers come and go (add_model, cleanup), and a *)
(* handle_model_event may raise.                                           *)

ObserverNames == { "note_controller", "tag_controller" }

\* the observers whose handler raises during a call: none, one, all
Raisings == { {}, {"note_controller"}, ObserverNames }

\* BaseModel.add_observer
AddObserver(o) ==
    /\ observers' = add_observer(observers, o)
    /\ lastOp' = Call("add_observer", None, None, <<>>, TRUE, <<>>, NoCall)
    /\ UNCHANGED <<storeVars, clock, settingsVars, autosaveVars>>

\* BaseModel.remove_observer
RemoveObserver(o) ==
    /\ observers' = remove_observer(observers, o)
    /\ lastOp' = Call("remove_observer", None, None, <<>>, TRUE, <<>>, NoCall)
    /\ UNCHANGED <<storeVars, clock, settingsVars, autosaveVars>>

ObservedTitles == { <<"a">> }
ObservedNames == { <<"a">> }
ObservedLists == { <<>> }

NextObservers ==
    \/ \E o \in ObserverNames : AddObserver(o)
    \/ \E o \in ObserverNames : RemoveObserver(o)
    \/ Tick
    \/ \E t \in ObservedTitles, c \in StoreContents, l \in ObservedLists,
          r \in Raisings :
           NoteCreate(t, c, l, r)
    \/ \E n \in NoteIds, r \in Raisings,
          d \in UpdateInputs(ObservedTitles, StoreContents, ObservedLists) :
           NoteUpdate(n, d, r)
    \/ \E n \in NoteIds, r \in Raisings : NoteDelete(n, r)
    \/ \E n \in NoteIds, t \in TagIds, r \in Raisings :
           AddTagToNote(n, t, r)
    \/ \E n \in NoteIds, t \in TagIds, r \in Raisings :
           RemoveTagFromNote(n, t, r)
    \/ \E nm \in ObservedNames, c \in StoreColors, r \in Raisings :
           TagCreate(nm, c, r)
    \/ \E t \in TagIds, d \in TagUpdateInputs(ObservedNames, StoreColors),
          r \in Raisings :
           TagUpdate(t, d, r)
    \/ \E t \in TagIds, r \in Raisings : TagDelete(t, r)
    \/ \E t \in TagIds, r \in Raisings : TagForceDelete(t, r)
    \/ \E nm \in ObservedNames, c \in StoreColors, r \in Raisings :
           GetOrCreateTag(nm, c, r)

SpecObservers == Init /\ [][NextObservers]_vars

\* C10: a repository call that emits an event has called the handler of
\* every registered observer, once each and in registration order, whichever
\* of them raised, and reports success all the same.
C10_NotifyAll ==
    /\ \A i, j \in 1..Len(observers) : i # j => observers[i] # observers[j]
    /\ lastOp.events # <<>> =>
          /\ lastOp.delivered = observers
          /\ lastOp.ok

\* an event went to two observers, the first of which raised
C10_Witness ==
    /\ lastOp.events # <<>>
    /\ Len(lastOp.delivered) >= 2
    /\ lastOp.delivered[1] \in lastOp.raised
    /\ lastOp.ok

---------------------------------------------------------------------------
(* The note repository with time passing between the calls, so that        *)
(* created_at and updated_at tell the calls apart.                         *)

TimedTitles == { <<" ">>, <<"a">>, <<"b", " ">> }
TimedLists == { <<>>, <<1>>, <<2, 1>> }
TimedNames == { <<"a">>, <<"b">> }

NextTimed ==
    \/ Tick
    \/ \E t \in TimedTitles, c \in StoreContents, l \in TimedLists :
           NoteCreate(t, c, l, {})
    \/ \E n \in NoteIds, d \in UpdateInputs(TimedTitles, StoreContents, TimedLists) :
           NoteUpdate(n, d, {})
    \/ \E n \in NoteIds : NoteDelete(n, {})
    \/ \E nm \in TimedNames, c \in StoreColors : TagCreate(nm, c, {})

SpecTimed == Init /\ [][NextTimed]_vars

\* this step is a call of the method op (Tick leaves lastOp as it was)
Called(op) == lastOp'.op = op /\ clock' = clock

\* C11: delete of a live note succeeds, marks it deleted and emits
\* note_deleted; delete of a note that is already deleted fails, leaves the
\* notes table (is_deleted, updated_at) and the associations as they were and
\* emits no event.
C11_SecondDeleteFails ==
    [][ \A n \in NoteIds :
          (Called("note_delete") /\ lastOp'.id = n) =>
              /\ Live(n) =>
                    /\ lastOp'.ok
                    /\ notes'[n].is_deleted = 1
                    /\ lastOp'.events = <<"note_deleted">>
              /\ Deleted(n) =>
                    /\ ~lastOp'.ok
                    /\ notes' = notes
                    /\ note_tags' = note_tags
                    /\ lastOp'.events = <<>>
      ]_vars

\* a second delete has failed, a second after the first one
C11_Witness ==
    /\ lastOp.op = "note_delete"
    /\ ~lastOp.ok
    /\ Deleted(lastOp.id)
    /\ notes[lastOp.id].updated_at < clock

---------------------------------------------------------------------------
(* The editor and the repository side by side: notes are created, edited   *)
(* through the autosave and through NoteModel.update, tagged and deleted.  *)

EditorNames == { <<"a">> }
EditorLists == { <<>>, <<1>> }
EditorTitles == { <<"b", " ">> }
EditorColors == { <<>> }
\* the editor's content edits
EditorEdits == { d \in EditInputs : d.fields = {"content"} }
\* update() called with one field at a time
EditorUpdates ==
    { d \in UpdateInputs(EditorTitles, EditContents, EditorLists) :
        Cardinality(d.fields) = 1 }

NextEditor ==
    \/ \E t \in NewNoteTitles, c \in NewNoteContents :
           NoteCreate(t, c, <<>>, {})
    \/ \E n \in NoteIds, d \in EditorUpdates : NoteUpdate(n, d, {})
    \/ \E n \in NoteIds : NoteDelete(n, {})
    \/ \E n \in NoteIds, t \in TagIds : AddTagToNote(n, t, {})
    \/ \E nm \in EditorNames, c \in EditorColors : TagCreate(nm, c, {})
    \/ \E n \in 1..Len(notes), d \in EditorEdits : ScheduleAutoSave(n, d)
    \/ TimerExpiry
    \/ ForceSaveAll
    \/ \E n \in NoteIds : DeleteNote(n)

SpecEditor == Init /\ [][NextEditor]_vars

\* C12: a note that is deleted stays deleted, with the title and the content
\* it had, whatever is called next; and the notes table never loses a row.
C12_SoftDeleteTerminal ==
    [][ /\ Len(notes') >= Len(notes)
        /\ \A n \in NoteIds :
              Deleted(n) =>
                  /\ notes'[n].is_deleted = 1
                  /\ notes'[n].title = notes[n].title
                  /\ notes'[n].content = notes[n].content
      ]_vars

\* a flush has handed the pending changes of a deleted note to
\* NoteModel.update
C12_Witness ==
    /\ lastOp.op \in { "_auto_save_current_note", "force_save_all" }
    /\ \E k \in 1..Len(flush) :
          /\ Deleted(flush[k].note_id)
          /\ flush[k].to_model
          /\ "content" \in flush[k].changes.fields
          /\ flush[k].changes.content # notes[flush[k].note_id].content

---------------------------------------------------------------------------
(* SettingsModel: what is set is what is read *)

\* the methods of SettingsModel that write no row of the settings table
SettingsReads == { "get_setting", "get_settings_by_prefix", "__init__" }

\* C13: get_setting(k) right after set_setting(k, v) returns v, and a call
\* that writes nothing to the table leaves what get_setting(k) returns as it
\* was: so get_setting(k) returns the v of the last set_setting(k, v) as long
\* as nothing wrote k in between.
C13_RoundTrip ==
    [][ /\ \A k \in SettingKeys, v \in SettingValues :
              SetSetting(k, v) =>
                  /\ get_setting(SettingsState', k).found
                  /\ get_setting(SettingsState', k).value = v
        /\ \A k \in SettingKeys :
              ( /\ lastOp'.op \in SettingsReads
                /\ get_setting(SettingsState, k).found ) =>
                  /\ get_setting(SettingsState', k).found
                  /\ get_setting(SettingsState', k).value
                        = get_setting(SettingsState, k).value
      ]_vars

---------------------------------------------------------------------------
(* NoteModel.update: the tags, the other fields, the other notes *)

\* the tags note_tags associates with the note
tags_of(nt, note_id) == { r[2] : r \in { x \in nt : x[1] = note_id } }

StoreUpdates == UpdateInputs(TitleInputs, StoreContents, TagIdLists)

\* C14: whenever update(id, data) is called with data['tag_ids'] a list of
\* ids of existing tags and succeeds, the note's tags in the table it leaves
\* are exactly the ids of the list.
C14_TagsReplaced ==
    \A n \in NoteIds, d \in StoreUpdates :
        ( /\ "tag_ids" \in d.fields
          /\ Range(d.tag_ids) \subseteq DOMAIN tags ) =>
            \A r \in { note_update(notes, tags, note_tags,
                                    get_current_timestamp, n, d) } :
                r.ok => tags_of(r.note_tags, n) = Range(d.tag_ids)

\* an update has left a note with one tag of two, and another with none
C14_Witness ==
    /\ lastOp.op = "note_update" /\ lastOp.ok
    /\ Cardinality(DOMAIN tags) = 2
    /\ Len(notes) = 2
    /\ \E n \in NoteIds :
          /\ n # lastOp.id
          /\ tags_of(note_tags, n) = {}
          /\ Cardinality(tags_of(note_tags, lastOp.id)) = 1

TimedUpdates == UpdateInputs(TimedTitles, StoreContents, TimedLists)

\* C15: whenever update(id, data) succeeds, the title, the content and the
\* tags that data does not hold are as before, every other note's row and
\* tags are as before, no row is added or removed, and the note's updated_at
\* is the time of the call.
C15_UpdateFrame ==
    \A n \in NoteIds, d \in TimedUpdates :
        \A r \in { note_update(notes, tags, note_tags,
                               get_current_timestamp, n, d) } :
            r.ok =>
                /\ Len(r.notes) = Len(notes)
                /\ "title" \notin d.fields => r.notes[n].title = notes[n].title
                /\ "content" \notin d.fields =>
                       r.notes[n].content = notes[n].content
                /\ "tag_ids" \notin d.fields => r.note_tags = note_tags
                /\ r.notes[n].created_at = notes[n].created_at
                /\ r.notes[n].is_deleted = notes[n].is_deleted
                /\ r.notes[n].updated_at = get_current_timestamp
                /\ \A m \in 1..Len(notes) \ {n} :
                       /\ r.notes[m] = notes[m]
                       /\ tags_of(r.note_tags, m) = tags_of(note_tags, m)

\* an update, later than the note's creation, has left a tagged note with
\* its tags, beside another note that is older
C15_Witness ==
    /\ lastOp.op = "note_update" /\ lastOp.ok
    /\ notes[lastOp.id].updated_at = clock
    /\ notes[lastOp.id].created_at < clock
    /\ tags_of(note_tags, lastOp.id) # {}
    /\ notes[lastOp.id].title = <<"b">>
    /\ \E m \in 1..Len(notes) :
          /\ m # lastOp.id
          /\ notes[m].updated_at < clock
          /\ tags_of(note_tags, m) # {}

\* C16: update(id, data) either succeeds with the title, the content and
\* the tags all as data asks, or reports failure with the note's row and
\* every association as they were.
C16_SaveAllOrNothing ==
    \A n \in NoteIds, d \in StoreUpdates :
        \A r \in { note_update(notes, tags, note_tags,
                               get_current_timestamp, n, d) } :
            IF r.ok
            THEN /\ "title" \in d.fields => r.notes[n].title = strip(d.title)
                 /\ "content" \in d.fields => r.notes[n].content = d.content
                 /\ "tag_ids" \in d.fields =>
                        tags_of(r.note_tags, n) = Range(d.tag_ids)
            ELSE /\ r.notes = notes
                 /\ r.note_tags = note_tags

---------------------------------------------------------------------------
(* TagModel.force_delete when a statement raises sqlite3.Error.  Each      *)
(* execute_query is a transaction of its own: committed when the statement *)
(* went through, rolled back alone when it raised.                         *)

\* which execute_query of force_delete raises
Faults == { "none", "note_tags", "tags" }

\* the result of TagModel.force_delete on the tables, the statement named by
\* fault raising: what was committed before it stays
tag_force_delete_fault(ts, nt, tag_id, fault) ==
    IF tag_id \notin DOMAIN ts
    THEN [ok |-> FALSE, tags |-> ts, note_tags |-> nt]
    ELSE IF fault = "note_tags"
    THEN [ok |-> FALSE, tags |-> ts, note_tags |-> nt]
    ELSE IF fault = "tags"
    THEN [ok |-> FALSE, tags |-> ts,
          note_tags |-> { r \in nt : r[2] # tag_id }]
    ELSE tag_force_delete(ts, nt, tag_id)

\* TagModel.force_delete on a connection whose statements may raise
TagForceDeleteFault(tag_id, fault) ==
    /\ \E r \in { tag_force_delete_fault(tags, note_tags, tag_id, fault) } :
          /\ tags' = r.tags
          /\ note_tags' = r.note_tags
          /\ lastOp' = IF r.ok
                       THEN Call("tag_force_delete", None, tag_id, <<>>,
                                 TRUE, <<"tag_deleted">>, Notified({}))
                       ELSE Call("tag_force_delete", None, tag_id, <<>>,
                                 FALSE, <<>>, NoCall)
    /\ UNCHANGED <<notes, tag_seq, clock, observers>>
    /\ UNCHANGED <<settingsVars, autosaveVars>>

NextFaults ==
    \/ \E t \in TitleInputs, c \in StoreContents, l \in TagIdLists :
           NoteCreate(t, c, l, {})
    \/ \E n \in NoteIds : NoteDelete(n, {})
    \/ \E nm \in NameInputs, c \in StoreColors : TagCreate(nm, c, {})
    \/ \E n \in NoteIds, t \in TagIds : AddTagToNote(n, t, {})
    \/ \E t \in TagIds, f \in Faults : TagForceDeleteFault(t, f)

SpecFaults == Init /\ [][NextFaults]_vars

\* C17: a force_delete that leaves the tag's row leaves the tag's
\* associations too, and one that reports failure leaves both tables as they
\* were, whichever of its statements failed.
C17_ForceDeleteAtomic ==
    [][ \A t \in TagIds :
          (lastOp'.op = "tag_force_delete" /\ lastOp'.tag = t) =>
              /\ t \in DOMAIN tags' =>
                     { r \in note_tags' : r[2] = t }
                         = { r \in note_tags : r[2] = t }
              /\ ~lastOp'.ok => tags' = tags /\ note_tags' = note_tags
      ]_vars

---------------------------------------------------------------------------
(* The events of the repository methods *)

\* the ModelEventType each mutating method notifies with
event_of(op) ==
    CASE op = "note_create" -> "note_created"
      [] op = "note_update" -> "note_updated"
      [] op = "note_delete" -> "note_deleted"
      [] op = "add_tag_to_note" -> "note_tag_added"
      [] op = "remove_tag_from_note" -> "note_tag_removed"
      [] op = "tag_create" -> "tag_created"
      [] op = "tag_update" -> "tag_updated"
      [] op = "tag_delete" -> "tag_deleted"
      [] op = "tag_force_delete" -> "tag_deleted"

MutatingOps ==
    { "note_create", "note_update", "note_delete", "add_tag_to_note",
      "remove_tag_from_note", "tag_create", "tag_update", "tag_delete",
      "tag_force_delete" }

\* C18: a mutating method of NoteModel or TagModel that returns success has
\* notified once, with the event of its own type; one that returns failure
\* has not notified.
C18_OneEventOnSuccess ==
    lastOp.op \in MutatingOps =>
        IF lastOp.ok
        THEN lastOp.events = << event_of(lastOp.op) >>
        ELSE lastOp.events = <<>>

\* remove_tag_from_note has failed on a note that has another tag
C18_Witness ==
    /\ lastOp.op = "remove_tag_from_note"
    /\ ~lastOp.ok
    /\ lastOp.events = <<>>
    /\ Live(lastOp.id)
    /\ lastOp.tag \in DOMAIN tags
    /\ tags_of(note_tags, lastOp.id) # {}

\* C19: add_tag_to_note of an association that exists, and
\* remove_tag_from_note of one that does not, leave note_tags as it was,
\* return False and notify nobody; a call that notifies has inserted,
\* or deleted, exactly the row it was called with.
C19_TagHelpersIdempotent ==
    [][ \A n \in NoteIds, t \in TagIds :
          /\ ( /\ lastOp'.op = "add_tag_to_note"
               /\ lastOp'.id = n /\ lastOp'.tag = t ) =>
                 /\ <<n, t>> \in note_tags =>
                        /\ note_tags' = note_tags
                        /\ ~lastOp'.ok
                        /\ lastOp'.events = <<>>
                 /\ lastOp'.events # <<>> =>
                        /\ lastOp'.events = <<"note_tag_added">>
                        /\ <<n, t>> \notin note_tags
                        /\ note_tags' = note_tags \cup {<<n, t>>}
          /\ ( /\ lastOp'.op = "remove_tag_from_note"
               /\ lastOp'.id = n /\ lastOp'.tag = t ) =>
                 /\ <<n, t>> \notin note_tags =>
                        /\ note_tags' = note_tags
                        /\ ~lastOp'.ok
                        /\ lastOp'.events = <<>>
                 /\ lastOp'.events # <<>> =>
                        /\ lastOp'.events = <<"note_tag_removed">>
                        /\ <<n, t>> \in note_tags
                        /\ note_tags' = note_tags \ {<<n, t>>}
      ]_vars

\* add_tag_to_note has been called with an association that was there
C19_Witness ==
    /\ lastOp.op = "add_tag_to_note"
    /\ ~lastOp.ok
    /\ Live(lastOp.id)
    /\ <<lastOp.id, lastOp.tag>> \in note_tags
    /\ Cardinality(note_tags) > 1

---------------------------------------------------------------------------
(* TagModel: the tags no note uses *)

\* TagModel.get_all, as the set of the ids of the rows it returns (no limit):
\* with include_unused False the query is tags JOIN note_tags, DISTINCT
tag_get_all(ts, nt, include_unused) ==
    IF include_unused THEN DOMAIN ts
    ELSE { t \in DOMAIN ts : \E r \in nt : r[2] = t }

\* TagModel.get_unused_tags: get_all({'include_unused': False})
get_unused_tags(ts, nt) == tag_get_all(ts, nt, FALSE)

\* C20: get_unused_tags returns the tags that no note that is not deleted is
\* associated with, all of them and no other tag.
C20_UnusedTags ==
    get_unused_tags(tags, note_tags)
        = { t \in DOMAIN tags : _get_tag_note_count(notes, note_tags, t) = 0 }

---------------------------------------------------------------------------
(* TagModel: the reads and the note_count they carry.  A tag read is the    *)
(* set of its rows, each the id of the tag with its note_count.            *)

\* the loop that sets tag['note_count'] = _get_tag_note_count(tag['id'])
with_note_count(ns, nt, ids) ==
    { [id |-> t, note_count |-> _get_tag_note_count(ns, nt, t)] : t \in ids }

\* TagModel.get_by_id
tag_get_by_id(ns, ts, nt, tag_id) ==
    with_note_count(ns, nt, { t \in DOMAIN ts : t = tag_id })

\* TagModel.search_tags: WHERE name LIKE '%keyword%' (rows before LIMIT)
search_tags(ns, ts, nt, keyword) ==
    with_note_count(ns, nt,
        { t \in DOMAIN ts : like_contains(ts[t].name, keyword) })

\* TagModel.get_by_note: tags JOIN note_tags WHERE nt.note_id = ?
get_by_note(ns, ts, nt, note_id) ==
    with_note_count(ns, nt,
        { t \in DOMAIN ts : <<note_id, t>> \in nt })

\* TagModel.get_popular_tags (rows before LIMIT): tags JOIN note_tags,
\* GROUP BY the tag, COUNT(nt.note_id) as note_count; notes is not joined
get_popular_tags(ts, nt) ==
    { [id |-> t, note_count |-> Cardinality({ r \in nt : r[2] = t })] :
        t \in { u \in DOMAIN ts : \E r \in nt : r[2] = u } }

\* every row any tag read returns in this state
tag_reads ==
    UNION ( { tag_get_by_id(notes, tags, note_tags, t) : t \in TagIds }
            \cup { with_note_count(notes, note_tags, get_by_name(tags, nm)) :
                     nm \in NameInputs }
            \cup { with_note_count(notes, note_tags,
                                   tag_get_all(tags, note_tags, u)) :
                     u \in BOOLEAN }
            \cup { search_tags(notes, tags, note_tags, k) : k \in Keywords }
            \cup { get_by_note(notes, tags, note_tags, n) : n \in NoteIds }
            \cup { get_popular_tags(tags, note_tags) } )

\* C21: the note_count of every tag a tag read returns is the number of
\* notes, not deleted, that note_tags associates with the tag.
C21_NoteCountOfReads ==
    \A row \in tag_reads :
        row.note_count
            = Cardinality({ n \in 1..Len(notes) :
                              Live(n) /\ <<n, row.id>> \in note_tags })

\* get_popular_tags returns a tag that one note has, beside a note that a
\* delete has just removed
C21_Witness ==
    /\ \E row \in get_popular_tags(tags, note_tags) : row.note_count = 1
    /\ \E n \in NoteIds : Deleted(n)
    /\ \E n \in NoteIds : Live(n)
    /\ lastOp.op = "note_delete" /\ lastOp.ok

---------------------------------------------------------------------------
(* TagModel: names and colours as they are typed *)

\* colours as typed: #RGB, a word, and #RGB with the newline of a pasted line
TypedColors == ColorInputs \cup { <<"#", "F", "0", "0", "\n">> }

NextColors ==
    \/ \E nm \in NameInputs, c \in TypedColors : TagCreate(nm, c, {})
    \/ \E t \in TagIds, d \in TagUpdateInputs(NameInputs, TypedColors) :
           TagUpdate(t, d, {})
    \/ \E t \in TagIds : TagDelete(t, {})
    \/ \E nm \in NameInputs, c \in TypedColors : GetOrCreateTag(nm, c, {})

SpecColors == Init /\ [][NextColors]_vars

\* C22: every stored colour is # and three or six hex digits; create with
\* another colour succeeds and stores #007ACC; update with another colour
\* fails and leaves the tags table as it was.
C22_StoredColorsAreHex ==
    /\ \A t \in DOMAIN tags : hex_color(tags[t].color)
    /\ \A nm \in NameInputs, c \in TypedColors :
          \A r \in { tag_create(tags, tag_seq, get_current_timestamp, nm, c) } :
              ( /\ ~hex_color(c)
                /\ strip(nm) # <<>>
                /\ get_by_name(tags, nm) = {} ) =>
                  /\ r.ok
                  /\ r.tags[r.id].color = DefaultColor
    /\ \A t \in DOMAIN tags, d \in TagUpdateInputs(NameInputs, TypedColors) :
          \A r \in { tag_update(tags, t, d) } :
              ("color" \in d.fields /\ ~hex_color(d.color)) =>
                  /\ ~r.ok
                  /\ r.tags = tags

---------------------------------------------------------------------------
(* NoteModel.create and the note it makes *)

\* C23: create with a title that does not strip to nothing returns an id
\* that is positive and that no note had; get_by_id of it finds a note with
\* the stripped title, the content given, is_deleted 0 and created_at equal
\* to updated_at.
C23_CreateThenGet ==
    [][ \A t \in TimedTitles, c \in StoreContents, l \in TimedLists :
          ( /\ Called("note_create")
            /\ strip(t) # <<>>
            /\ NoteCreate(t, c, l, {}) ) =>
              /\ lastOp'.ok
              /\ lastOp'.id > 0
              /\ lastOp'.id \notin 1..Len(notes)
              /\ get_by_id(notes', lastOp'.id) = { lastOp'.id }
              /\ notes'[lastOp'.id].title = strip(t)
              /\ notes'[lastOp'.id].content = c
              /\ notes'[lastOp'.id].is_deleted = 0
              /\ notes'[lastOp'.id].created_at = notes'[lastOp'.id].updated_at
      ]_vars

\* a second note was created from a padded title, later than the first
C23_Witness ==
    /\ lastOp.op = "note_create" /\ lastOp.ok
    /\ lastOp.id = 2
    /\ notes[2].title = <<"b">>
    /\ notes[2].created_at = clock
    /\ notes[1].created_at < clock

---------------------------------------------------------------------------
(* Titles and names that strip to nothing *)

BlankNoteUpdates ==
    { d \in UpdateInputs(TitleInputs, StoreContents, EditorLists) :
        d.fields \in { {"title"}, {"title", "content", "tag_ids"} } }

BlankTagUpdates ==
    { d \in TagUpdateInputs(NameInputs, StoreColors) :
        d.fields \in { {"name"}, {"name", "color"} } }

NextBlank ==
    \/ Tick
    \/ \E t \in TitleInputs, c \in StoreContents, l \in EditorLists :
           NoteCreate(t, c, l, {})
    \/ \E n \in NoteIds, d \in BlankNoteUpdates : NoteUpdate(n, d, {})
    \/ \E nm \in NameInputs, c \in StoreColors : TagCreate(nm, c, {})
    \/ \E t \in TagIds, d \in BlankTagUpdates : TagUpdate(t, d, {})

SpecBlank == Init /\ [][NextBlank]_vars

\* a string of spaces, the empty string included
Blank(s) == \A i \in 1..Len(s) : s[i] = " "

\* the three tables and the tag id sequence are as they were
TablesUnchanged ==
    /\ notes' = notes
    /\ tags' = tags
    /\ tag_seq' = tag_seq
    /\ note_tags' = note_tags

\* C24: create and update of a note with a title of spaces, and create and
\* update of a tag with a name of spaces, return failure and leave notes,
\* tags and note_tags as they were.
C24_ValidationFailureWritesNothing ==
    [][ /\ \A t \in TitleInputs, c \in StoreContents, l \in EditorLists :
              ( /\ Called("note_create") /\ Blank(t)
                /\ NoteCreate(t, c, l, {}) ) =>
                  ~lastOp'.ok /\ TablesUnchanged
        /\ \A n \in NoteIds, d \in BlankNoteUpdates :
              ( /\ Called("note_update") /\ Blank(d.title)
                /\ NoteUpdate(n, d, {}) ) =>
                  ~lastOp'.ok /\ TablesUnchanged
        /\ \A nm \in NameInputs, c \in StoreColors :
              ( /\ Called("tag_create") /\ Blank(nm)
                /\ TagCreate(nm, c, {}) ) =>
                  ~lastOp'.ok /\ TablesUnchanged
        /\ \A t \in TagIds, d \in BlankTagUpdates :
              ( /\ Called("tag_update") /\ Blank(d.name)
                /\ TagUpdate(t, d, {}) ) =>
                  ~lastOp'.ok /\ TablesUnchanged
      ]_vars

\* update with a title of spaces, a content and tags has failed on a live
\* note that has no tag, while a tag exists, later than the note's last write
C24_Witness ==
    /\ lastOp.op = "note_update" /\ ~lastOp.ok
    /\ Live(lastOp.id)
    /\ tags_of(note_tags, lastOp.id) = {}
    /\ 1 \in DOMAIN tags
    /\ notes[lastOp.id].content = <<"B">>
    /\ notes[lastOp.id].updated_at < clock

---------------------------------------------------------------------------
(* DatabaseManager.get_cursor: the scope of execute_query, execute_many and *)
(* initialize_database.  The connection is sqlite3's with its default       *)
(* isolation_level: a transaction is opened before INSERT, UPDATE, DELETE   *)
(* and REPLACE, and before no other statement; a statement such as CREATE   *)
(* TABLE that finds no transaction open is committed as it is executed.     *)

\* the statements a scope executes: the writes of the repositories ("dml")
\* and the CREATE TABLE / CREATE INDEX of initialize_database ("ddl")
Statements ==
    { [kind |-> "dml", id |-> "insert_a"], [kind |-> "dml", id |-> "insert_b"],
      [kind |-> "ddl", id |-> "create_x"], [kind |-> "ddl", id |-> "create_y"] }

MaxStatements == 2

\* the bodies of a with get_cursor() block: the statements in order
Scripts ==
    UNION { [1..k -> Statements] : k \in 0..MaxStatements }

\* cursor.execute(sql)
execute(db, stmt) ==
    IF stmt.kind = "dml"
    THEN [db EXCEPT !.pending = @ \cup {stmt.id}, !.in_transaction = TRUE]
    ELSE IF db.in_transaction
    THEN [db EXCEPT !.pending = @ \cup {stmt.id}]
    ELSE [db EXCEPT !.committed = @ \cup {stmt.id}]

\* the first k statements of the body, executed in order
RECURSIVE execute_all(_, _, _)
execute_all(db, stmts, k) ==
    IF k = 0 THEN db
    ELSE execute(execute_all(db, stmts, k - 1), stmts[k])

\* connection.commit()
commit(db) ==
    [db EXCEPT !.committed = @ \cup db.pending, !.pending = {},
               !.in_transaction = FALSE]

\* connection.rollback(): the open transaction is undone
rollback(db) ==
    [db EXCEPT !.pending = {}, !.in_transaction = FALSE]

\* cursor.close() in the finally clause
close_cursor(db) == [db EXCEPT !.open_cursors = @ - 1]

\* with get_cursor(commit) as cursor: body.  fail_at is 0 when the body
\* ends normally, else the position of the statement that raises (the
\* statements before it were executed); raised is what the caller sees
get_cursor(db, stmts, fail_at, do_commit) ==
    LET opened == [db EXCEPT !.open_cursors = @ + 1]
    IN  IF fail_at = 0
        THEN [raised |-> FALSE,
              db |-> close_cursor(
                        IF do_commit
                        THEN commit(execute_all(opened, stmts, Len(stmts)))
                        ELSE execute_all(opened, stmts, Len(stmts)))]
        ELSE [raised |-> TRUE,
              db |-> close_cursor(
                        rollback(execute_all(opened, stmts, fail_at - 1)))]

\* one with get_cursor(commit) block
GetCursor(stmts, fail_at, do_commit) ==
    /\ \E r \in { get_cursor(database, stmts, fail_at, do_commit) } :
          /\ database' = r.db
          /\ lastOp' = Call("get_cursor", None, None, <<>>, ~r.raised, <<>>,
                            NoCall)
    /\ UNCHANGED <<storeVars, clock, observers>>
    /\ UNCHANGED <<settings, settings_cache, manager>>
    /\ UNCHANGED autosaveVars

NextStorage ==
    \E s \in Scripts, f \in 0..MaxStatements, c \in BOOLEAN :
        /\ f <= Len(s)
        /\ GetCursor(s, f, c)

SpecStorage == Init /\ [][NextStorage]_vars

\* what a query on the connection sees
visible(db) == db.committed \cup db.pending

\* the statements of the body that were executed
executed(stmts, fail_at) ==
    { stmts[i].id :
        i \in 1..(IF fail_at = 0 THEN Len(stmts) ELSE fail_at - 1) }

\* C25: a scope that ends normally has committed every statement of its
\* body; one whose body raises leaves none of the statements it executed
\* visible, unless it was visible before, and raises to its caller; and the
\* cursor is closed either way.
C25_ScopeCommitsOrRollsBack ==
    [][ \A s \in Scripts, f \in 0..MaxStatements :
          (f <= Len(s) /\ GetCursor(s, f, TRUE)) =>
              /\ database'.open_cursors = 0
              /\ f = 0 =>
                     /\ lastOp'.ok
                     /\ executed(s, f) \subseteq database'.committed
              /\ f # 0 =>
                     /\ ~lastOp'.ok
                     /\ (executed(s, f) \ visible(database))
                            \cap visible(database') = {}
      ]_vars

---------------------------------------------------------------------------
(* TagModel.get_or_create_tag *)

\* C26: get_or_create_tag with a name that is not blank returns a tag of
\* that stripped name; when the tag was there it is returned with the table
\* untouched and no event, else one row is added with one tag_created; and
\* in the state it leaves the name finds that same tag, so that a second
\* call returns the same id and creates nothing.
C26_GetOrCreateIdempotent ==
    [][ \A nm \in NameInputs, c \in TypedColors :
          ( /\ lastOp'.op = "get_or_create_tag"
            /\ ~Blank(nm)
            /\ GetOrCreateTag(nm, c, {}) ) =>
              /\ lastOp'.ok
              /\ lastOp'.tag \in DOMAIN tags'
              /\ tags'[lastOp'.tag].name = strip(nm)
              /\ get_by_name(tags', nm) = { lastOp'.tag }
              /\ \A c2 \in TypedColors :
                     ~tag_create(tags', tag_seq', get_current_timestamp,
                                 nm, c2).ok
              /\ IF \E t \in DOMAIN tags : tags[t].name = strip(nm)
                 THEN /\ tags' = tags
                      /\ tags[lastOp'.tag].name = strip(nm)
                      /\ lastOp'.events = <<>>
                 ELSE /\ DOMAIN tags' = DOMAIN tags \cup { lastOp'.tag }
                      /\ lastOp'.tag \notin DOMAIN tags
                      /\ \A t \in DOMAIN tags : tags'[t] = tags[t]
                      /\ lastOp'.events = <<"tag_created">>
      ]_vars

\* get_or_create_tag has returned the first of two tags, which was there,
\* and has created nothing
C26_Witness ==
    /\ lastOp.op = "get_or_create_tag" /\ lastOp.ok
    /\ lastOp.events = <<>>
    /\ lastOp.tag = 1
    /\ Cardinality(DOMAIN tags) = 2
    /\ tags[1].color = DefaultColor

---------------------------------------------------------------------------
(* The associations of deleted notes *)

\* C27: no row of note_tags has the id of a deleted note.
C27_NoTagsOnDeletedNotes ==
    \A r \in note_tags : ~Deleted(r[1])

\* add_tag_to_note, with a tag that exists, has failed on a deleted note,
\* while a live note has that tag
C27_Witness ==
    /\ lastOp.op = "add_tag_to_note" /\ ~lastOp.ok
    /\ Deleted(lastOp.id)
    /\ lastOp.tag \in DOMAIN tags
    /\ \E n \in NoteIds : Live(n) /\ <<n, lastOp.tag>> \in note_tags

---------------------------------------------------------------------------
(* _save_pending_changes re-entered: an observer's handler of the           *)
(* NOTE_UPDATED of one of its saves calls schedule_auto_save.  The loop is  *)
(* "for note_id, changes in self._pending_changes.items()": a key added to  *)
(* the dict makes the next step of the iteration raise RuntimeError, which  *)
(* the except clause logs, and clear() is not reached.                      *)

\* the handler's call: during the save of the at-th item,
\* schedule_auto_save(note_id, data)
Callbacks ==
    [at : 1..MaxNotes, note_id : NoteIds, data : EditInputs]

\* the dict after the handlers of the i-th save have run
after_handlers(pending, i, ok, cb) ==
    IF i = cb.at /\ ok
    THEN schedule_auto_save(pending, cb.note_id, cb.data)
    ELSE pending

\* the loop from its i-th item on; size is the size of the dict when the
\* iteration began
RECURSIVE reentered_each(_, _, _, _, _, _, _, _)
reentered_step(ms, ts, now, pending, i, st, cb, size) ==
    IF Len(pending) # size
    THEN [notes |-> st.notes, note_tags |-> st.note_tags, flush |-> st.flush,
          pending |-> pending, raised |-> TRUE]
    ELSE reentered_each(ms, ts, now, pending, i, st, cb, size)

reentered_each(ms, ts, now, pending, i, st, cb, size) ==
    IF i > size
    THEN [notes |-> st.notes, note_tags |-> st.note_tags, flush |-> st.flush,
          pending |-> <<>>, raised |-> FALSE]
    ELSE reentered_step(
             ms, ts, now,
             after_handlers(
                 pending, i,
                 update_note(ms, st.notes, ts, st.note_tags, now,
                             pending[i].note_id, pending[i].changes).ok,
                 cb),
             i + 1,
             save_step(st, pending[i],
                       update_note(ms, st.notes, ts, st.note_tags, now,
                                   pending[i].note_id, pending[i].changes),
                       "note" \in ms),
             cb, size)

\* _save_pending_changes with the handler's call in it
_save_pending_changes_reentered(ms, ns, ts, nt, now, pending, cb) ==
    reentered_each(ms, ts, now, pending, 1,
                   [notes |-> ns, note_tags |-> nt, flush |-> <<>>],
                   cb, Len(pending))

\* the timer fires, and a handler calls schedule_auto_save during the flush:
\* the timer is started again by that call
TimerExpiryReentered(cb) ==
    /\ phase = "running"
    /\ timer_active
    /\ auto_save_enabled
    /\ cb.at <= Len(pending_changes)
    /\ \E r \in { _save_pending_changes_reentered(
                      models, notes, tags, note_tags, get_current_timestamp,
                      pending_changes, cb) } :
           /\ Len(r.flush) >= cb.at
           /\ r.flush[cb.at].ok
           /\ notes' = r.notes
           /\ note_tags' = r.note_tags
           /\ pending_changes' = r.pending
           /\ flush' = r.flush
           /\ lastOp' = ControllerCall("_auto_save_current_note", None, <<>>,
                                       TRUE, r.flush)
    /\ timer_active' = TRUE
    /\ UNCHANGED <<current_note_id, auto_save_enabled, models, connection,
                   phase>>
    /\ AutosaveFrame

NextReentrant ==
    \/ \E t \in NewNoteTitles, c \in NewNoteContents :
           NoteCreate(t, c, <<>>, {})
    \/ \E n \in 1..Len(notes), d \in EditInputs : ScheduleAutoSave(n, d)
    \/ TimerExpiry
    \/ \E cb \in Callbacks : TimerExpiryReentered(cb)

SpecReentrant == Init /\ [][NextReentrant]_vars

\* the changes hold what data holds
Holds(changes, data) ==
    /\ data.fields \subseteq changes.fields
    /\ "title" \in data.fields => changes.title = data.title
    /\ "content" \in data.fields => changes.content = data.content

\* C28: after a flush during which a handler called
\* schedule_auto_save(n, d), d was handed to update_note with the changes of
\* n or is pending for n, and every other note that was pending when the
\* flush began was handed to update_note once.
C28_ReentrantEditKept ==
    [][ \A cb \in Callbacks :
          TimerExpiryReentered(cb) =>
              /\ \/ \E k \in 1..Len(flush') :
                        /\ flush'[k].note_id = cb.note_id
                        /\ Holds(flush'[k].changes, cb.data)
                 \/ \E k \in 1..Len(pending_changes') :
                        /\ pending_changes'[k].note_id = cb.note_id
                        /\ Holds(pending_changes'[k].changes, cb.data)
              /\ \A i \in 1..Len(pending_changes) :
                     pending_changes[i].note_id # cb.note_id =>
                         Cardinality({ k \in 1..Len(flush') :
                             flush'[k].note_id = pending_changes[i].note_id })
                           = 1
      ]_vars

---------------------------------------------------------------------------
(* The autosave timer and the pending edits *)

\* C29: while the application runs with autosave enabled, whenever
\* _pending_changes is not empty the autosave timer is active, so that the
\* edits that schedule_auto_save took are handed to update_note when it
\* fires; the state after set_auto_save_enabled(False) followed by
\* set_auto_save_enabled(True) is no exception.
C29_PendingImpliesTimerArmed ==
    (phase = "running" /\ auto_save_enabled /\ pending_changes # <<>>)
        => timer_active

---------------------------------------------------------------------------
(* ControllerManager: the registration of the controllers and their        *)
(* initialization in the order of their dependencies.  init_controller is  *)
(* the local recursive function of init_all_controllers; the interpreter   *)
(* raises RecursionError when the calls nest deeper than its limit, and    *)
(* init_all_controllers has no handler for it.                             *)

ControllerNames == {"main", "note", "tag"}

\* "ghost" is a name that is never registered
DependencyNames == ControllerNames \cup {"ghost"}

DependencyLists ==
    {<<>>} \cup { <<d>> : d \in DependencyNames }
           \cup { <<"note", "tag">>, <<"tag", "ghost">> }

\* the interpreter's limit on nested calls, scaled down; the deepest
\* nesting without a cycle is one call per registered controller and one
\* more that returns at once
RecursionLimit == 5

Registered(m) == { m.controllers[i] : i \in 1..Len(m.controllers) }

\* self._controllers[name] = controller;
\* self._controller_dependencies[name] = dependencies or []
register_controller(m, name, dependencies) ==
    [m EXCEPT
       !.controllers = IF name \in Registered(m) THEN @ ELSE Append(@, name),
       !.dependencies = [n \in (DOMAIN @) \cup {name} |->
                            IF n = name THEN dependencies ELSE @[n]]]

\* controller.init_controller(); initialized.add(name)
init_current(st, name) ==
    IF st.raised THEN st
    ELSE [st EXCEPT !.initialized = @ \cup {name},
                    !.calls = Append(@, name)]

RECURSIVE init_controller(_, _, _, _)
RECURSIVE init_dependencies(_, _, _, _)

\* the local function init_controller(name), called at nesting depth
\* `depth`; st is the set `initialized`, the init_controller() calls made on
\* the controllers so far, and whether RecursionError is propagating
init_controller(m, name, st, depth) ==
    IF st.raised THEN st
    ELSE IF depth > RecursionLimit THEN [st EXCEPT !.raised = TRUE]
    ELSE IF name \in st.initialized \/ name \notin Registered(m) THEN st
    ELSE init_current(
             init_dependencies(m, m.dependencies[name], st, depth), name)

\* for dep in self._controller_dependencies.get(name, []): init_controller(dep)
init_dependencies(m, deps, st, depth) ==
    IF deps = <<>> \/ st.raised THEN st
    ELSE init_dependencies(m, Tail(deps),
             init_controller(m, Head(deps), st, depth + 1), depth)

RECURSIVE init_each(_, _, _)
\* for name in self._controllers: init_controller(name)
init_each(m, names, st) ==
    IF names = <<>> \/ st.raised THEN st
    ELSE init_each(m, Tail(names), init_controller(m, Head(names), st, 1))

init_all_controllers(m) ==
    init_each(m, m.controllers,
              [initialized |-> {}, calls |-> <<>>, raised |-> FALSE])

cleanup_all_controllers(m) ==
    [m EXCEPT !.controllers = <<>>, !.dependencies = [n \in {} |-> <<>>]]

ManagerFrame ==
    /\ UNCHANGED <<storeVars, clock, observers>>
    /\ UNCHANGED <<settings, settings_cache, database>>
    /\ UNCHANGED autosaveVars

ManagerCall(op, name, ok) ==
    Call(op, None, None, name, ok, <<>>, NoCall)

RegisterController(name, dependencies) ==
    /\ manager' = [register_controller(manager, name, dependencies) EXCEPT
                     !.returned = FALSE, !.raised = FALSE,
                     !.initialized = {}, !.calls = <<>>]
    /\ lastOp' = ManagerCall("register_controller", name, TRUE)
    /\ ManagerFrame

InitAllControllers ==
    /\ \E r \in { init_all_controllers(manager) } :
          /\ manager' = [manager EXCEPT !.initialized = r.initialized,
                                        !.calls = r.calls,
                                        !.raised = r.raised,
                                        !.returned = ~r.raised]
          /\ lastOp' = ManagerCall("init_all_controllers", <<>>, ~r.raised)
    /\ ManagerFrame

CleanupAllControllers ==
    /\ manager' = [cleanup_all_controllers(manager) EXCEPT
                     !.returned = FALSE, !.raised = FALSE,
                     !.initialized = {}, !.calls = <<>>]
    /\ lastOp' = ManagerCall("cleanup_all_controllers", <<>>, TRUE)
    /\ ManagerFrame

NextManager ==
    \/ \E n \in ControllerNames, d \in DependencyLists :
          RegisterController(n, d)
    \/ InitAllControllers
    \/ CleanupAllControllers

SpecManager == Init /\ [][NextManager]_vars

\* the position of the init_controller() call on controller n
CallIndex(calls, n) == CHOOSE i \in 1..Len(calls) : calls[i] = n

\* C30: once init_all_controllers has been called, whatever the registered
\* dependencies (a cycle, an unregistered name), it has returned, the
\* init_controller() of every registered controller has been called exactly
\* once, and never before that of a registered controller it depends on.
C30_InitAllTerminatesInOrder ==
    (lastOp.op = "init_all_controllers") =>
        /\ manager.returned
        /\ \A n \in Registered(manager) :
              Cardinality({ i \in 1..Len(manager.calls) :
                              manager.calls[i] = n }) = 1
        /\ \A n \in Registered(manager) :
              \A i \in 1..Len(manager.dependencies[n]) :
                 \A d \in { manager.dependencies[n][i] } :
                    d \in Registered(manager) /\ d # n =>
                       CallIndex(manager.calls, d) < CallIndex(manager.calls, n)

=============================================================================
